---------------------------- MODULE Spec2Model ----------------------------
(***************************************************************************)
(* A model of the dataflow engine: the reactive runtime of engine.py       *)
(* (Function.call, Variable.set_value, Variable.touch), the ordered        *)
(* containers of common.py and the classifier and graph builder of         *)
(* parsing.py.                                                             *)
(*                                                                         *)
(* The runtime is a single-threaded call stack.  Every frame of `stack` is *)
(* one active Python call; the position inside a `for ... in <list>` loop  *)
(* is NOT in the frame but in the list itself (PriorityList._n), because   *)
(* PriorityList.__iter__ returns self.                                     *)
(***************************************************************************)
EXTENDS Integers, Sequences, FiniteSets, TLC

VARIABLES
    value,      \* Variable._value, by Variable name
    triggers,   \* Variable.triggers / Function.triggers, by entity name
    gets,       \* Function.gets, by Function name
    sets,       \* Function.sets, by Function name
    func,       \* Function.function (the callable), by Function name
    stack,      \* the Python call stack of the running cascade
    err,        \* the exception the last top-level call raised to its caller
    log,        \* history of the running/last cascade (observations only)
    nops,       \* number of top-level calls made so far
    params,     \* get_entity's argument: the record to classify
    patterns,   \* config["patterns"]: the classification scheme
    matches,    \* what Pattern.match gave for each pattern of the scheme
    entity,     \* what get_entity returned
    cpc,        \* where the classification stands
    nodes,      \* setup_workspace's argument: the node records
    edges,      \* setup_workspace's argument: the edge records
    definitions,\* setup_workspace's argument: the definitions namespace
    id_dict,    \* setup_workspace's _id_dict: node id -> entity
    variables,  \* workspace.variables: keys and values of the NamedList
    functions,  \* workspace.functions: keys and values of the NamedList
    bpc,        \* where setup_workspace stands
    nlist,      \* a NamedList: _keys, _values and _n
    nlop,       \* the last call made on the NamedList and how it ended
    nlops,      \* number of calls made on the lists under test so far
    plist,      \* a PriorityList: _priorities, _values and _n
    plop,       \* the last call made on the PriorityList and how it ended
    result,     \* read_gml's result: the nested dict built so far
    fields,     \* read_gml's fields: the stack of open field names
    continued,  \* read_gml's continued: a quoted value is still open
    n_fields,   \* read_gml's n_fields: occurrences of each stepped field
    cur_field,  \* read_gml's field: the key of the last key-value line
    cur_val,    \* read_gml's val: the value text collected so far
    rpc,        \* where read_gml stands
    lines_read, \* history of the lines read and how each was parsed
    constructed,\* the entity a constructor was last called for
    label_arg,  \* parse_label's argument
    label_ret   \* what parse_label returned or raised

\* the state of the runtime
rvars == <<value, triggers, gets, sets, func, stack, log, nops>>
\* the state of the classifier
cvars == <<params, patterns, matches, entity, cpc>>

\* the state of the graph builder
bvars == <<nodes, edges, definitions, id_dict, variables, functions, bpc>>

\* the state of the NamedList under test
lvars == <<nlist, nlop, nlops, plist, plop>>
\* the state of the reader
gvars == <<result, fields, continued, n_fields, cur_field, cur_val, rpc,
           lines_read>>
\* the state of the constructors
kvars == <<constructed>>
\* the state of the label parser
pvars == <<label_arg, label_ret>>
\* the state of the units that are exercised on their own
ovars == <<lvars, gvars, kvars, pvars>>

vars == <<rvars, err, cvars, bvars, ovars>>

-----------------------------------------------------------------------------
(* Bounds of the model *)

MaxOps == 2
MaxVal == 2
MaxListOps == 3
MaxLines == 4
MaxLabel == 4

-----------------------------------------------------------------------------
(* Python values *)

VInt(i) == [t |-> "int", i |-> i]
VNone == [t |-> "None"]
SkipType == [t |-> "SkipType"]
TouchType == [t |-> "TouchType"]
VTuple(e) == [t |-> "tuple", e |-> e]

\* common._is_iterable: iter(value) succeeds (a tuple, a list and a
\* PriorityList are iterable; a number, None, a marker, a Variable and a
\* Function are not)
is_iterable(v) == v.t \in {"tuple", "list", "PriorityList"}

\* common._make_iterable(value, tuple), as the sequence of the tuple's items
make_iterable(v) ==
    IF v.t = "None" THEN <<>>
    ELSE IF ~is_iterable(v) THEN <<v>>
    ELSE v.e

-----------------------------------------------------------------------------
(* PriorityList *)

\* an ordinary integer priority
Pri(i) == [inf |-> FALSE, i |-> i]

\* common.pos_inf: PositiveInfinity(), the int 0 of a subclass of int that
\* overrides __lt__ only
pos_inf == [inf |-> TRUE, i |-> 0]

\* a < b as Python evaluates it on two priorities: PositiveInfinity.__lt__
\* when a is pos_inf; the reflected int.__gt__(b, a) on b's int value when
\* only b is pos_inf (b's class is a subclass of a's); int.__lt__ otherwise
lt(a, b) ==
    IF a.inf THEN FALSE
    ELSE IF b.inf THEN b.i > a.i
    ELSE a.i < b.i

\* PriorityList(args...): priorities 0..len-1, iteration position 0
PriorityList(args) ==
    [priorities |-> [i \in 1..Len(args) |-> Pri(i - 1)], values |-> args,
     n |-> 0]

\* PriorityList.__iter__: resets the one shared position
iter(L) == [L EXCEPT !.n = 0]

\* mutant: the loop stops after the first item
has_next_first(L) == L.n < Len(L.values) /\ L.n < 1

\* PriorityList.__next__ has an item left
has_next(L) == L.n < Len(L.values)

\* mutant: the list is walked from its end
next_value_reversed(L) == L.values[Len(L.values) - L.n]

\* the item __next__ returns
next_value(L) == L.values[L.n + 1]

\* the list after __next__ returned an item
advance(L) == [L EXCEPT !.n = @ + 1]

\* PriorityList.append(priority, value)
append(L, priority, val) ==
    [L EXCEPT !.priorities = Append(@, priority), !.values = Append(@, val)]

\* sorted() on a list shorter than 64: the run that starts the list
\* (ascending while no key is less than the one before it, strictly
\* descending otherwise) ends at position k
RECURSIVE run_end(_, _, _)
run_end(K, k, descending) ==
    IF k < Len(K) /\ lt(K[k + 1], K[k]) = descending
    THEN run_end(K, k + 1, descending)
    ELSE k

\* mutant: the pivot goes before the items that are not less than it
bisect_left(K, a, pivot, l, r) ==
    Cardinality({j \in 1..Len(a) : lt(K[a[j]], K[pivot])})

\* binary insertion: the number of items of the sorted part `a` that stay
\* before the pivot; l and r bound the search as in binarysort
RECURSIVE bisect(_, _, _, _, _)
bisect(K, a, pivot, l, r) ==
    IF l >= r THEN l
    ELSE LET p == l + ((r - l) \div 2)
         IN  IF lt(K[pivot], K[a[p + 1]])
             THEN bisect(K, a, pivot, l, p)
             ELSE bisect(K, a, pivot, p + 1, r)

\* binary insertion of the items from position start on into the sorted
\* part `a` (positions into K)
RECURSIVE binarysort(_, _, _)
binarysort(K, a, start) ==
    IF start > Len(K) THEN a
    ELSE LET l == bisect(K, a, start, 0, Len(a))
         IN  binarysort(K, SubSeq(a, 1, l) \o <<start>> \o SubSeq(a, l + 1, Len(a)),
                        start + 1)

\* common._sort_indices(array): sorted(enumerate(array), key=item) with
\* CPython's list sort, which compares keys with < only
sort_indices(K) ==
    IF Len(K) < 2 THEN [i \in 1..Len(K) |-> i]
    ELSE LET descending == lt(K[2], K[1])
             k == run_end(K, 2, descending)
             run == [i \in 1..k |-> IF descending THEN k + 1 - i ELSE i]
         IN  binarysort(K, run, k + 1)

\* PriorityList.sort_by_priority
sort_by_priority(L) ==
    LET inds == sort_indices(L.priorities)
    IN  [L EXCEPT !.priorities = [i \in 1..Len(inds) |-> L.priorities[inds[i]]],
                  !.values = [i \in 1..Len(inds) |-> L.values[inds[i]]]]

-----------------------------------------------------------------------------
(* The callables of the definitions namespace.  They are inputs of the     *)
(* engine: Function.call only applies them (self.function(args...)).         *)

\* lambda *args: r
Const(r) == [kind |-> "const", r |-> r]
\* lambda *args: args
PassArgs == [kind |-> "args"]
\* lambda v: v - 1 if v > 0 else SkipType
Dec == [kind |-> "dec"]
\* lambda *args: 1 // 0
Raises == [kind |-> "raise"]

\* self.function(args...): the returned value, or the exception raised
apply(c, args) ==
    CASE c.kind = "const" -> [exc |-> "none", r |-> c.r]
      [] c.kind = "args" -> [exc |-> "none", r |-> VTuple(args)]
      [] c.kind = "dec" ->
            IF Len(args) # 1 \/ args[1].t # "int"
            THEN [exc |-> "TypeError", r |-> VNone]
            ELSE IF args[1].i > 0
            THEN [exc |-> "none", r |-> VInt(args[1].i - 1)]
            ELSE [exc |-> "none", r |-> SkipType]
      [] OTHER -> [exc |-> "ZeroDivisionError", r |-> VNone]

-----------------------------------------------------------------------------
(* Function.call, lines 118-130: arguments, callable, dispatch mode *)

Min(S) == CHOOSE x \in S : \A y \in S : x <= y

\* the exception of `raise EngineAttributeError((..., ..., ...).format(...))`:
\* the message is a tuple of strings, and a tuple has no attribute `format`,
\* so evaluating the argument raises AttributeError before
\* EngineAttributeError is ever constructed.
dispatch_error == "AttributeError"

\* the packing branch (lines 141-147) reads `output`, the target of the for
\* loop of the other branch, which is unbound here: UnboundLocalError.  Had
\* it been bound, the branch would go on to self.sets[k] with `k` unbound too.
packing_branch == "UnboundLocalError"

\* the dispatch mode of lines 123-130
dispatch_mode(n_outputs, n_sets) ==
    IF n_outputs = n_sets THEN "1by1"
    ELSE IF n_sets = 1 THEN "pack"
    ELSE "error"

\* lines 118-130 (and the packing branch, which has no call in it) for
\* Function f: the exception raised, or the outputs to dispatch one by one.
\* n is the position gets._n is left at by the list comprehension.
call_head(f) ==
    LET G == gets[f].values
        bad == {i \in 1..Len(G) : G[i] \notin DOMAIN value}
    IN  IF bad # {}
        THEN [exc |-> "AttributeError", n |-> Min(bad), args |-> <<>>,
              outputs |-> <<>>, mode |-> "none"]
        ELSE
          LET args == [i \in 1..Len(G) |-> value[G[i]]]
              res == apply(func[f], args)
              outputs == make_iterable(res.r)
              mode == dispatch_mode(Len(outputs), Len(sets[f].values))
          IN  IF res.exc # "none"
              THEN [exc |-> res.exc, n |-> Len(G), args |-> args,
                    outputs |-> <<>>, mode |-> "none"]
              ELSE [exc |-> CASE mode = "error" -> dispatch_error
                              [] mode = "pack" -> packing_branch
                              [] OTHER -> "none",
                    n |-> Len(G), args |-> args, outputs |-> outputs,
                    mode |-> mode]

-----------------------------------------------------------------------------
(* Frames and events *)

Frame(op, self, pc, outputs, k) ==
    [op |-> op, self |-> self, pc |-> pc, outputs |-> outputs, k |-> k]

Top == stack[Len(stack)]

\* the stack with its top frame replaced
WithTop(fr) == [stack EXCEPT ![Len(stack)] = fr]

\* d is the stack position of the frame the event belongs to
CallEv(f, by, h, d) ==
    [e |-> "call", who |-> f, by |-> by, args |-> h.args, out |-> h.outputs,
     mode |-> h.mode, d |-> d]
SetEv(c, v, by, k, d) ==
    [e |-> "set", who |-> c, by |-> by, val |-> v, k |-> k, d |-> d]
TouchEv(c, by, k, d) == [e |-> "touch", who |-> c, by |-> by, k |-> k, d |-> d]
SkipEv(c, by, k, d) == [e |-> "skip", who |-> c, by |-> by, k |-> k, d |-> d]
RetEv(who, d) == [e |-> "ret", who |-> who, d |-> d]
RaiseEv(exc, d) == [e |-> "raise", who |-> exc, d |-> d]

-----------------------------------------------------------------------------
(* The three operations, entered from a frame or from the external caller. *)
(* stk and lg are the stack and the log the operation starts from, trg the *)
(* trigger lists after the caller's own bookkeeping.                       *)

\* mutant: the enclosing frame swallows the exception and goes on
raise_caught(exc, stk, lg) ==
    /\ stack' = SubSeq(stk, 1, Len(stk) - 1)
    /\ err' = exc
    /\ log' = Append(lg, RaiseEv(exc, Len(stk)))

\* an exception nobody catches: every frame is unwound
raise_(exc, stk, lg) ==
    /\ stack' = <<>>
    /\ err' = exc
    /\ log' = Append(lg, RaiseEv(exc, Len(stk)))

\* val.call() up to the first nested call (lines 118-131)
invoke(val, by, trg, stk, lg) ==
    /\ triggers' = trg
    /\ value' = value
    /\ IF val \notin DOMAIN func
       THEN \* a Variable has no attribute `call`
            /\ gets' = gets
            /\ raise_("AttributeError", stk, lg)
       ELSE LET h == call_head(val)
                ev == CallEv(val, by, h, Len(stk) + 1)
            IN  /\ gets' = [gets EXCEPT ![val].n = h.n]
                /\ IF h.exc = "none"
                   THEN /\ stack' = Append(stk,
                                Frame("call", val, "dispatch", h.outputs, 0))
                        /\ err' = "none"
                        /\ log' = Append(lg, ev)
                   ELSE raise_(h.exc, Append(stk, Frame("call", val, "head", <<>>, 0)),
                               Append(lg, ev))

\* c.set_value(v) up to the first trigger (lines 207-208)
enter_set_value(c, v, by, k, trg, stk, lg) ==
    /\ gets' = gets
    /\ IF c \notin DOMAIN value
       THEN \* a Function has no attribute `set_value`
            /\ value' = value
            /\ triggers' = trg
            /\ raise_("AttributeError", stk, lg)
       ELSE /\ value' = [value EXCEPT ![c] = v]
            /\ triggers' = [trg EXCEPT ![c] = iter(@)]
            /\ stack' = Append(stk, Frame("set_value", c, "triggers", <<>>, 0))
            /\ err' = "none"
            /\ log' = Append(lg, SetEv(c, v, by, k, Len(stk) + 1))

\* c.touch() up to the first trigger (line 219)
enter_touch(c, by, k, trg, stk, lg) ==
    /\ gets' = gets
    /\ value' = value
    /\ IF c \notin DOMAIN value
       THEN \* a Function has no attribute `touch`
            /\ triggers' = trg
            /\ raise_("AttributeError", stk, lg)
       ELSE /\ triggers' = [trg EXCEPT ![c] = iter(@)]
            /\ stack' = Append(stk, Frame("touch", c, "triggers", <<>>, 0))
            /\ err' = "none"
            /\ log' = Append(lg, TouchEv(c, by, k, Len(stk) + 1))

-----------------------------------------------------------------------------
(* Records, patterns and relations of parsing.py *)

VStr(x) == [t |-> "str", s |-> x]
VFalse == [t |-> "bool", b |-> FALSE]
VDict(d) == [t |-> "dict", d |-> d]
\* parsing.Word: a string with ==, != and `in` of its own, and no __hash__
Word(x) == [t |-> "Word", s |-> x]

\* the pairs <<b, a>> of different strings of the model with b in a
ProperSubstrings ==
    {<<"dashed", "dashed-dotted">>, <<"rectangle", "roundrectangle">>}

\* str.__contains__: b in a
str_contains(a, b) == a = b \/ <<b, a>> \in ProperSubstrings

Ok(v) == [exc |-> "none", v |-> v]
Exc(e) == [exc |-> e, v |-> VFalse]

\* `key in value` followed by `value[key]`, for one key of the loop of
\* get_dict_value: the next value, False for a key that is not there, or
\* the TypeError of a value that is no container
dict_step(val, key) ==
    CASE val.t = "dict" ->
            IF key \in DOMAIN val.d THEN [exc |-> "none", found |-> TRUE, v |-> val.d[key]]
            ELSE [exc |-> "none", found |-> FALSE, v |-> VFalse]
      [] val.t = "str" ->
            \* a substring test, and then a str indexed by a str
            IF str_contains(val.s, key)
            THEN [exc |-> "TypeError", found |-> FALSE, v |-> VFalse]
            ELSE [exc |-> "none", found |-> FALSE, v |-> VFalse]
      [] OTHER -> [exc |-> "TypeError", found |-> FALSE, v |-> VFalse]

\* mutant: an absent path gives None
get_dict_value_none(dic, keys) ==
    LET a == dict_step(dic, keys[1])
        b == IF Len(keys) > 1 /\ a.exc = "none" /\ a.found
             THEN dict_step(a.v, keys[2]) ELSE a
    IN  IF b.exc # "none" THEN Exc(b.exc)
        ELSE IF b.found THEN Ok(b.v) ELSE Ok(VNone)

RECURSIVE get_dict_value(_, _)
\* common.get_dict_value
get_dict_value(dic, keys) ==
    IF keys = <<>> THEN Ok(dic)
    ELSE LET a == dict_step(dic, Head(keys))
         IN  IF a.exc # "none" THEN Exc(a.exc)
             ELSE IF ~a.found THEN Ok(VFalse)
             ELSE get_dict_value(a.v, Tail(keys))

IsNum(v) == v.t \in {"int", "bool"}
Num(v) == IF v.t = "int" THEN v.i ELSE IF v.b THEN 1 ELSE 0
IsText(v) == v.t \in {"str", "Word"}

\* Python's a == b on the values of the model (False == 0; a Word equals
\* the str and the Word of the same text)
py_eq(a, b) ==
    IF a.t = "Word" \/ b.t = "Word" THEN IsText(a) /\ IsText(b) /\ a.s = b.s
    ELSE IF IsNum(a) /\ IsNum(b) THEN Num(a) = Num(b)
    ELSE a.t = b.t /\ a = b

\* Python's b in a
py_in(b, a) ==
    CASE a.t = "str" ->
            IF b.t = "str" THEN [exc |-> "none", b |-> str_contains(a.s, b.s)]
            ELSE [exc |-> "TypeError", b |-> FALSE]
      [] a.t = "dict" ->
            IF b.t = "Word" THEN [exc |-> "TypeError", b |-> FALSE]
            ELSE [exc |-> "none", b |-> b.t = "str" /\ b.s \in DOMAIN a.d]
      [] OTHER -> [exc |-> "TypeError", b |-> FALSE]

\* Equals.match, DoesNotEqual.match, Contains.match
relation_match(relation, a, b) ==
    CASE relation = "equals" -> [exc |-> "none", b |-> py_eq(a, b)]
      [] relation = "does_not_equal" -> [exc |-> "none", b |-> ~py_eq(a, b)]
      [] relation = "contains" -> py_in(b, a)

\* one (field, relation, value) triple of a Pattern
Triple(field, relation, val) ==
    [field |-> field, relation |-> relation, value |-> val]

\* what `relation.match(get_dict_value(other, fields), value)` gives
triple_match(tr, other) ==
    LET g == get_dict_value(other, tr.field)
    IN  IF g.exc # "none" THEN [exc |-> g.exc, b |-> FALSE]
        ELSE relation_match(tr.relation, g.v, tr.value)

RECURSIVE match_from(_, _, _, _)
\* the loop of Pattern.match from triple i on: `is_match and ...` does not
\* evaluate its right operand once is_match is false
match_from(pattern, other, i, is_match) ==
    IF i > Len(pattern) THEN IF is_match THEN "True" ELSE "False"
    ELSE IF ~is_match THEN match_from(pattern, other, i + 1, FALSE)
    ELSE LET r == triple_match(pattern[i], other)
         IN  IF r.exc # "none" THEN r.exc
             ELSE match_from(pattern, other, i + 1, r.b)

\* Pattern.match: "True", "False" or the exception raised
pattern_match(pattern, other) == match_from(pattern, other, 1, TRUE)

\* PREDEFS.FIELDS
NODE_TYPE == <<"graphics", "type">>
COLOR == <<"graphics", "fill">>
EDGE_STYLE == <<"graphics", "style">>

\* config["patterns"], in the order of the dict
ConfigPatterns ==
    <<[role |-> "variable",
       pattern |-> <<Triple(NODE_TYPE, "equals", Word("ellipse"))>>],
      [role |-> "function",
       pattern |-> <<Triple(NODE_TYPE, "equals", Word("roundrectangle"))>>],
      [role |-> "gets",
       pattern |-> <<Triple(COLOR, "equals", Word("#0000FF")),
                     Triple(EDGE_STYLE, "equals", VFalse)>>],
      [role |-> "sets",
       pattern |-> <<Triple(COLOR, "equals", Word("#00FF00")),
                     Triple(EDGE_STYLE, "equals", VFalse)>>],
      [role |-> "triggers",
       pattern |-> <<Triple(COLOR, "equals", Word("#FF0000")),
                     Triple(EDGE_STYLE, "equals", VFalse)>>]>>

\* the outcomes of `[pattern.match(params) for pattern in patterns]`: the
\* list stops at the first pattern that raises
RECURSIVE match_list(_, _, _)
match_list(scheme, rec, i) ==
    IF i > Len(scheme) THEN <<>>
    ELSE LET m == pattern_match(scheme[i].pattern, rec)
         IN  IF m \notin {"True", "False"} THEN <<m>>
             ELSE <<m>> \o match_list(scheme, rec, i + 1)

\* the number of items of a list equal to x: list.count
count(q, x) == Cardinality({i \in DOMAIN q : q[i] = x})

\* the position of the first item equal to x: list.index
index(q, x) == Min({i \in DOMAIN q : q[i] = x})

\* mutant: the first matching pattern decides
get_entity_first(ms, scheme) ==
    IF count(ms, "True") >= 1 THEN scheme[index(ms, "True")].role ELSE "None"

\* lines 484-487 of get_entity, given the list of matches
get_entity(ms, scheme) ==
    IF count(ms, "True") = 1 THEN scheme[index(ms, "True")].role ELSE "None"

\* the exception of a list of matches, if it ends with one
raised(ms) ==
    IF ms # <<>> /\ ms[Len(ms)] \notin {"True", "False"} THEN ms[Len(ms)]
    ELSE "none"

\* no classification is going on
NoClassifier ==
    /\ params = VDict([id |-> VInt(0)])
    /\ patterns = <<>>
    /\ matches = <<>>
    /\ entity = "unset"
    /\ cpc = "off"

-----------------------------------------------------------------------------
(* The graph builder of parsing.py: labels, definitions, edge order *)

\* a str whose characters matter (a node label), as the sequence of them
VText(chars) == [t |-> "str", c |-> chars]

\* config["node_spec"]["name_token"] and ["name_separator"]
name_token == "@"
name_separator == " "

\* str.count(ch) for a one-character ch
str_count(text, ch) == Cardinality({i \in DOMAIN text : text[i] = ch})

\* str.find(ch): 0-based position of the first ch, -1 when there is none
str_find(text, ch) ==
    IF \E i \in DOMAIN text : text[i] = ch
    THEN Min({i \in DOMAIN text : text[i] = ch}) - 1
    ELSE -1

\* text[a:b] for 0 <= a and 0 <= b
slice(text, a, b) == SubSeq(text, a + 1, IF b < Len(text) THEN b ELSE Len(text))

\* mutant: the name stops before the separator
label_name_exclusive(label, ind_separator) ==
    slice(label, str_find(label, name_token) + 1, ind_separator)

\* parse_label, line 446: the name of a label that has a separator
label_name(label, ind_separator) ==
    slice(label, str_find(label, name_token) + 1, ind_separator + 1)

\* parse_label(label).  The raise statement of line 440 calls .format on a
\* tuple of two strings, which raises AttributeError.
parse_label(label) ==
    IF label.t # "str" \/ str_count(label.c, name_token) # 1
    THEN [exc |-> "AttributeError", name |-> <<>>, description |-> <<>>]
    ELSE LET ind_separator == str_find(label.c, name_separator)
         IN  IF ind_separator = -1
             THEN [exc |-> "none",
                   name |-> slice(label.c, str_find(label.c, name_token) + 1,
                                  Len(label.c)),
                   description |-> <<>>]
             ELSE [exc |-> "none",
                   name |-> label_name(label.c, ind_separator),
                   description |-> slice(label.c,
                                         str_find(label.c, name_separator) + 1,
                                         Len(label.c))]

\* variable_from_definitions / function_from_definitions up to the
\* constructor: params["label"], parse_label, getattr(definitions, name)
from_definitions(defs, node) ==
    IF "label" \notin DOMAIN node.d
    THEN [exc |-> "KeyError", name |-> <<>>, description |-> <<>>]
    ELSE LET parsed == parse_label(node.d["label"])
         IN  IF parsed.exc = "none" /\ parsed.name \notin DOMAIN defs
             THEN [parsed EXCEPT !.exc = "AttributeError"]
             ELSE parsed

\* get_edge_order(edge): the label of the edge, pos_inf when it has none
get_edge_order(edge) ==
    IF "label" \in DOMAIN edge.d THEN Pri(edge.d["label"].i) ELSE pos_inf

\* get_entity(params) under the configured scheme
classified(rec) ==
    LET ms == match_list(patterns, rec, 1)
    IN  IF raised(ms) # "none" THEN [exc |-> raised(ms), role |-> "None"]
        ELSE [exc |-> "none", role |-> get_entity(ms, patterns)]

\* mutant: no key is ever found in a registry
keys_none(registry) == {}

\* NamedList: the keys / the values of a registry
keys(registry) == {registry[i].key : i \in DOMAIN registry}
objects(registry) == {registry[i].obj : i \in DOMAIN registry}

\* the identity of the entity object created for the i-th node
ObjKeys == <<"o1", "o2", "o3", "o4">>

\* dict.update({key: val})
update(dic, key, val) ==
    [k \in DOMAIN dic \cup {key} |-> IF k = key THEN val ELSE dic[k]]

\* where setup_workspace goes on after the i-th node / edge is done
RECURSIVE resume(_, _, _, _)
resume(at, i, ns, es) ==
    IF at = "nodes" /\ i > Len(ns) THEN resume("edges", 1, ns, es)
    ELSE IF at = "edges" /\ i > Len(es) THEN [at |-> "order", i |-> 0]
    ELSE [at |-> at, i |-> i]

\* setup_workspace is not running and no workspace came from it
NoBuild ==
    /\ nodes = <<>>
    /\ edges = <<>>
    /\ definitions = <<>>
    /\ id_dict = <<>>
    /\ variables = <<>>
    /\ functions = <<>>
    /\ bpc = [at |-> "off", i |-> 0]

-----------------------------------------------------------------------------
(* NamedList of common.py *)

\* an index of a NamedList: a string key or an integer position
Key(k) == [str |-> TRUE, k |-> k, i |-> 0]
Pos(i) == [str |-> FALSE, k |-> "", i |-> i]

\* NamedList(): no keys, no values
NamedList == [keys |-> <<>>, values |-> <<>>, n |-> 0]

\* what a call on a NamedList gives: the exception it raised, the list
\* after it and the value it returned
Outcome(exc, L, ret) == [exc |-> exc, L |-> L, ret |-> ret]

\* list.index(x): 0-based position of the first x, ValueError without one
list_index(q, x) ==
    IF \E i \in DOMAIN q : q[i] = x
    THEN Ok(VInt(Min({i \in DOMAIN q : q[i] = x}) - 1))
    ELSE Exc("ValueError")

\* the 1-based position a Python list gives to the integer index i
\* (negative indices count from the end), 0 when it is out of range
list_position(q, i) ==
    LET j == IF i < 0 THEN i + Len(q) ELSE i
    IN  IF 0 <= j /\ j < Len(q) THEN j + 1 ELSE 0

\* the list without the item at 1-based position p
without(q, p) == SubSeq(q, 1, p - 1) \o SubSeq(q, p + 1, Len(q))

\* NamedList._get_ind(index)
get_ind(L, idx) ==
    IF idx.str THEN list_index(L.keys, idx.k) ELSE Ok(VInt(idx.i))

\* mutant: the key list is popped at the position _get_ind found
keys_pop_by_position(L, idx, ind) ==
    IF list_position(L.keys, ind) = 0 THEN Exc("IndexError")
    ELSE Ok(VTuple(without(L.keys, list_position(L.keys, ind))))

\* NamedList.pop, line 146: self._keys.pop(index) with the index as the
\* caller gave it.  list.pop takes integers only.
keys_pop(L, idx, ind) ==
    IF idx.str THEN Exc("TypeError")
    ELSE IF list_position(L.keys, idx.i) = 0 THEN Exc("IndexError")
    ELSE Ok(VTuple(without(L.keys, list_position(L.keys, idx.i))))

\* NamedList.pop(index)
named_pop(L, idx) ==
    LET ind == get_ind(L, idx)
    IN  IF ind.exc # "none" THEN Outcome(ind.exc, L, VNone)
        ELSE LET popped == keys_pop(L, idx, ind.v.i)
                 p == list_position(L.values, ind.v.i)
             IN  IF popped.exc # "none" THEN Outcome(popped.exc, L, VNone)
                 ELSE IF p = 0
                 THEN Outcome("IndexError", [L EXCEPT !.keys = popped.v.e], VNone)
                 ELSE Outcome("none",
                              [L EXCEPT !.keys = popped.v.e,
                                        !.values = without(L.values, p)],
                              L.values[p])

\* NamedList.append(keyword, value)
named_append(L, keyword, val) ==
    IF \E i \in DOMAIN L.keys : L.keys[i] = keyword
    THEN Outcome("ValueError", L, VNone)
    ELSE Outcome("none",
                 [L EXCEPT !.keys = Append(@, keyword), !.values = Append(@, val)],
                 VNone)

\* NamedList.__setitem__(index, value)
named_setitem(L, idx, val) ==
    LET ind == get_ind(L, idx)
    IN  IF ind.exc # "none" THEN Outcome(ind.exc, L, VNone)
        ELSE IF list_position(L.values, ind.v.i) = 0
        THEN Outcome("IndexError", L, VNone)
        ELSE Outcome("none",
                     [L EXCEPT !.values[list_position(L.values, ind.v.i)] = val],
                     VNone)

\* mutant: only the values are reordered
sort_by_value_only(L) ==
    LET inds == sort_indices([i \in 1..Len(L.values) |-> Pri(L.values[i].i)])
    IN  Outcome("none",
                [L EXCEPT !.values = [i \in 1..Len(inds) |-> L.values[inds[i]]]],
                VNone)

\* NamedList.sort_by_value
sort_by_value(L) ==
    LET inds == sort_indices([i \in 1..Len(L.values) |-> Pri(L.values[i].i)])
    IN  Outcome("none",
                [L EXCEPT !.values = [i \in 1..Len(inds) |-> L.values[inds[i]]],
                          !.keys = [i \in 1..Len(inds) |-> L.keys[inds[i]]]],
                VNone)

\* a call on the NamedList: its name and arguments, the list it was made
\* on, and its outcome
ListCall(op, idx, val, before, out) ==
    [op |-> op, index |-> idx, val |-> val, before |-> before,
     exc |-> out.exc, ret |-> out.ret]

\* a call on the PriorityList: its name and arguments, the list it was
\* made on, and the exception it raised
PriorityCall(op, idx, priority, val, before, exc) ==
    [op |-> op, index |-> idx, priority |-> priority, val |-> val,
     before |-> before, exc |-> exc]

\* no NamedList and no PriorityList is under test
NoRegistry ==
    /\ nlist = NamedList
    /\ nlop = ListCall("none", Pos(0), VNone, NamedList,
                       Outcome("none", NamedList, VNone))
    /\ nlops = 0
    /\ plist = PriorityList(<<>>)
    /\ plop = PriorityCall("none", 0, Pri(0), VNone, PriorityList(<<>>), "none")

\* config["graph_spec"]["stepped_fields"]: node and edge, each as the
\* sequence of its characters
stepped_fields == {<<"n", "o", "d", "e">>, <<"e", "d", "g", "e">>}

\* a dict with no key
EmptyDict == [t |-> "dict", d |-> <<>>]

\* read_gml is not running
NoReader ==
    /\ result = EmptyDict
    /\ fields = <<>>
    /\ continued = FALSE
    /\ n_fields = [f \in stepped_fields |-> 0]
    /\ cur_field = <<>>
    /\ cur_val = <<>>
    /\ rpc = "off"
    /\ lines_read = <<>>

\* no constructor has been called
NoConstruction == constructed = [kind |-> "none"]

\* parse_label is not called on its own
NoLabel == label_arg = <<>> /\ label_ret = [at |-> "off"]

\* none of the units is exercised on its own
NoOther == NoRegistry /\ NoReader /\ NoConstruction /\ NoLabel

-----------------------------------------------------------------------------
(* Workspaces built directly with the constructors Variable(name, value,   *)
(* triggers) and Function(function, gets, sets, triggers, name).           *)

\* what the callable of a Function under test may return
Results ==
    {VNone, VInt(1), SkipType, TouchType,
     VTuple(<<VInt(1), VInt(2)>>),
     VTuple(<<SkipType, TouchType>>),
     VTuple(<<TouchType, VInt(1)>>),
     VTuple(<<VInt(1), VInt(2), VInt(1)>>)}

Callables == {Const(r) : r \in Results} \cup {PassArgs, Raises}

\* x -> f -> y -> g -> z, f also triggers h: f has one output cell
WsChain(c) ==
    [value |-> [x |-> VInt(0), y |-> VInt(0), z |-> VInt(0)],
     triggers |-> [x |-> PriorityList(<<"f">>), y |-> PriorityList(<<"g">>),
                   z |-> PriorityList(<<>>), f |-> PriorityList(<<"h">>),
                   g |-> PriorityList(<<>>), h |-> PriorityList(<<>>)],
     gets |-> [f |-> PriorityList(<<"x">>), g |-> PriorityList(<<"y">>),
               h |-> PriorityList(<<>>)],
     sets |-> [f |-> PriorityList(<<"y">>), g |-> PriorityList(<<"z">>),
               h |-> PriorityList(<<>>)],
     func |-> [f |-> c, g |-> PassArgs, h |-> Const(VNone)]]

\* f has two output cells y and z; y triggers g (which writes z) and then h
WsFan(c) ==
    [value |-> [x |-> VInt(0), y |-> VInt(0), z |-> VInt(0)],
     triggers |-> [x |-> PriorityList(<<"f">>), y |-> PriorityList(<<"g", "h">>),
                   z |-> PriorityList(<<"h">>), f |-> PriorityList(<<"h">>),
                   g |-> PriorityList(<<>>), h |-> PriorityList(<<>>)],
     gets |-> [f |-> PriorityList(<<"x">>), g |-> PriorityList(<<"y">>),
               h |-> PriorityList(<<>>)],
     sets |-> [f |-> PriorityList(<<"y", "z">>), g |-> PriorityList(<<"z">>),
               h |-> PriorityList(<<>>)],
     func |-> [f |-> c, g |-> PassArgs, h |-> Const(VNone)]]

\* a cycle that ends with Skip: x triggers f and g, f counts x down to 0
WsCycle ==
    [value |-> [x |-> VInt(0), y |-> VInt(0)],
     triggers |-> [x |-> PriorityList(<<"f", "g">>), y |-> PriorityList(<<>>),
                   f |-> PriorityList(<<>>), g |-> PriorityList(<<>>)],
     gets |-> [f |-> PriorityList(<<"x">>), g |-> PriorityList(<<"x">>)],
     sets |-> [f |-> PriorityList(<<"x">>), g |-> PriorityList(<<"y">>)],
     func |-> [f |-> Dec, g |-> PassArgs]]

Workspaces ==
    {WsChain(c) : c \in Callables} \cup {WsFan(c) : c \in Callables}
        \cup {WsCycle}

\* the values the external caller passes to set_value
InputValues == {VInt(i) : i \in 1..MaxVal}

Init ==
    /\ \E w \in Workspaces :
          /\ value = w.value
          /\ triggers = w.triggers
          /\ gets = w.gets
          /\ sets = w.sets
          /\ func = w.func
    /\ stack = <<>>
    /\ err = "none"
    /\ log = <<>>
    /\ nops = 0
    /\ NoClassifier
    /\ NoBuild
    /\ NoOther

-----------------------------------------------------------------------------
(* Top-level calls by the external caller *)

\* the caller holds a workspace and is between two calls
Idle == stack = <<>> /\ nops < MaxOps /\ bpc.at \in {"off", "returned"}

\* variable.set_value(v) / variable.value = v
set_value(c, v) ==
    /\ Idle
    /\ nops' = nops + 1
    /\ enter_set_value(c, v, "caller", 0, triggers, <<>>, <<>>)
    /\ UNCHANGED <<sets, func, cvars, bvars, ovars>>

\* variable.touch()
touch(c) ==
    /\ Idle
    /\ nops' = nops + 1
    /\ enter_touch(c, "caller", 0, triggers, <<>>, <<>>)
    /\ UNCHANGED <<sets, func, cvars, bvars, ovars>>

\* function.call() / function()
call(f) ==
    /\ Idle
    /\ nops' = nops + 1
    /\ invoke(f, "caller", triggers, <<>>, <<>>)
    /\ UNCHANGED <<sets, func, cvars, bvars, ovars>>

-----------------------------------------------------------------------------
(* Steps of the running cascade: always of the top frame *)

\* one more item of `for function in self.triggers: function.call()`
next_trigger ==
    /\ stack # <<>>
    /\ Top.pc = "triggers"
    /\ has_next(triggers[Top.self])
    /\ invoke(next_value(triggers[Top.self]), Top.self,
              [triggers EXCEPT ![Top.self] = advance(@)], stack, log)
    /\ UNCHANGED <<sets, func, nops, cvars, bvars, ovars>>

\* StopIteration: the loop and with it the operation is over
end_triggers ==
    /\ stack # <<>>
    /\ Top.pc = "triggers"
    /\ ~has_next(triggers[Top.self])
    /\ stack' = SubSeq(stack, 1, Len(stack) - 1)
    /\ log' = Append(log, RetEv(Top.self, Len(stack)))
    /\ UNCHANGED <<value, triggers, gets, sets, func, err, nops, cvars, bvars, ovars>>

Dispatching == stack # <<>> /\ Top.pc = "dispatch" /\ Top.k < Len(Top.outputs)

\* `output is SkipType`, `output is TouchType` (lines 135, 137)
is_skip(output) == output = SkipType
\* mutant: the Touch marker is not recognised
is_touch_never(output) == FALSE
is_touch(output) == output = TouchType

\* mutant: every output goes to the first cell
dispatch_target_first(f, k) == sets[f].values[1]

\* self.sets[k], k counted from 1 here (lines 138, 140)
dispatch_target(f, k) == sets[f].values[k]

\* the stack once the enumerate loop has moved on to item k + 1
Moved == WithTop([Top EXCEPT !.k = @ + 1])

\* line 135-136: the output is SkipType
dispatch_skip ==
    /\ Dispatching
    /\ is_skip(Top.outputs[Top.k + 1])
    /\ stack' = Moved
    /\ log' = Append(log, SkipEv(dispatch_target(Top.self, Top.k + 1), Top.self,
                                 Top.k + 1, Len(stack) + 1))
    /\ UNCHANGED <<value, triggers, gets, sets, func, err, nops, cvars, bvars, ovars>>

\* line 137-138: the output is TouchType
dispatch_touch ==
    /\ Dispatching
    /\ ~is_skip(Top.outputs[Top.k + 1])
    /\ is_touch(Top.outputs[Top.k + 1])
    /\ enter_touch(dispatch_target(Top.self, Top.k + 1), Top.self, Top.k + 1,
                   triggers, Moved, log)
    /\ UNCHANGED <<sets, func, nops, cvars, bvars, ovars>>

\* line 139-140: any other output
dispatch_set ==
    /\ Dispatching
    /\ ~is_skip(Top.outputs[Top.k + 1])
    /\ ~is_touch(Top.outputs[Top.k + 1])
    /\ enter_set_value(dispatch_target(Top.self, Top.k + 1), Top.outputs[Top.k + 1],
                       Top.self, Top.k + 1, triggers, Moved, log)
    /\ UNCHANGED <<sets, func, nops, cvars, bvars, ovars>>

\* the enumerate loop is exhausted; lines 149: iter(self.triggers)
dispatch_done ==
    /\ stack # <<>>
    /\ Top.pc = "dispatch"
    /\ Top.k = Len(Top.outputs)
    /\ stack' = WithTop([Top EXCEPT !.pc = "triggers"])
    /\ triggers' = [triggers EXCEPT ![Top.self] = iter(@)]
    /\ UNCHANGED <<value, gets, sets, func, err, log, nops, cvars, bvars, ovars>>

Step ==
    \/ next_trigger
    \/ end_triggers
    \/ dispatch_skip
    \/ dispatch_touch
    \/ dispatch_set
    \/ dispatch_done

Next ==
    \/ \E c \in DOMAIN value, v \in InputValues : set_value(c, v)
    \/ \E c \in DOMAIN value : touch(c)
    \/ \E f \in DOMAIN func : call(f)
    \/ Step

Spec == Init /\ [][Next]_vars

-----------------------------------------------------------------------------
(* Reading the log.  An event with frame position d belongs to the frame   *)
(* pushed at stack position d; its parent is the frame at position d - 1.  *)

Range(q) == {q[i] : i \in DOMAIN q}

IsPrefix(a, b) == Len(a) <= Len(b) /\ \A i \in 1..Len(a) : a[i] = b[i]

\* the events that push a frame
Opens(i) == log[i].e \in {"call", "set", "touch"}

\* the log positions at which the frame opened at i returns
Returns(i) == {j \in i + 1..Len(log) : log[j].e = "ret" /\ log[j].d = log[i].d}

Returned(i) == Returns(i) # {}

\* the last log position of the frame opened at i
SpanEnd(i) == IF Returned(i) THEN Min(Returns(i)) ELSE Len(log)

\* the events the frame opened at i caused itself, in order
Children(i) ==
    SelectSeq(SubSeq(log, i + 1, SpanEnd(i)),
              LAMBDA ev : ev.d = log[i].d + 1
                            /\ ev.e \in {"call", "set", "touch", "skip"})

\* the events of a sequence that are of one of the kinds
OfKind(evs, kinds) == SelectSeq(evs, LAMBDA ev : ev.e \in kinds)

\* a call event whose outputs are dispatched one to one
OneToOne(i) == log[i].e = "call" /\ log[i].mode = "1by1"

\* the event one-to-one dispatch owes for output k of call event i
Owed(i, k) ==
    LET f == log[i].who
        c == sets[f].values[k]
        o == log[i].out[k]
    IN  IF o = SkipType THEN SkipEv(c, f, k, log[i].d + 1)
        ELSE IF o = TouchType THEN TouchEv(c, f, k, log[i].d + 1)
        ELSE SetEv(c, o, f, k, log[i].d + 1)

\* all of them, in ascending index order
AllOwed(i) == [k \in 1..Len(log[i].out) |-> Owed(i, k)]

-----------------------------------------------------------------------------
(* Claims about Function.call's dispatch *)

\* a call event in which the callable returned N # 1 outputs for one cell
PackCall(i) ==
    /\ log[i].e = "call"
    /\ log[i].mode # "none"
    /\ Len(sets[log[i].who].values) = 1
    /\ Len(log[i].out) # 1

\* C1: a call with exactly one output cell whose callable returns N # 1
\* outputs completes without error, having updated that cell once, with the
\* whole sequence of outputs.
C1_PackingAssignsWhole ==
    stack = <<>> =>
        \A i \in DOMAIN log :
            PackCall(i) =>
                /\ err = "none"
                /\ Returned(i)
                /\ OfKind(Children(i), {"set", "touch", "skip"}) =
                      <<SetEv(sets[log[i].who].values[1], VTuple(log[i].out),
                              log[i].who, 1, log[i].d + 1)>>

\* a call event with N outputs for M cells, N # M and M # 1
ArityCall(i) ==
    /\ log[i].e = "call"
    /\ log[i].mode # "none"
    /\ Len(sets[log[i].who].values) # 1
    /\ Len(log[i].out) # Len(sets[log[i].who].values)

\* C2: when the number of outputs differs from the number of output cells
\* and there is not exactly one output cell, the call fails with
\* EngineAttributeError, having updated no cell and invoked no trigger.
C2_ArityErrorIsEngineError ==
    \A i \in DOMAIN log :
        ArityCall(i) =>
            /\ err = "EngineAttributeError"
            /\ stack = <<>>
            /\ i + 1 = Len(log)
            /\ log[i + 1].e = "raise"

\* C3: in one-to-one dispatch the cells written are, in ascending index
\* order, exactly sets[i] with outputs[i] for the indices i whose output is
\* neither Skip nor Touch: never another cell, never another value, and all
\* of them once the call has returned.
C3_OneToOne ==
    \A i \in DOMAIN log :
        OneToOne(i) =>
            LET done == OfKind(Children(i), {"set"})
                owed == OfKind(AllOwed(i), {"set"})
            IN  /\ IsPrefix(done, owed)
                /\ Returned(i) => done = owed

\* C3 witness: a returned call that wrote two cells one to one
C3_Witness ==
    \E i \in DOMAIN log :
        /\ OneToOne(i)
        /\ Returned(i)
        /\ Len(OfKind(Children(i), {"set"})) = 2

\* the frame opened at i (a set_value or touch of a cell) was re-entered:
\* the same cell was updated or touched again before it returned
Reentered(i) ==
    \E m \in i + 1..SpanEnd(i) :
        log[m].e \in {"set", "touch"} /\ log[m].who = log[i].who

\* the names of the Functions the frame opened at i invoked itself, in order
Invoked(i) ==
    LET calls == OfKind(Children(i), {"call"})
    IN  [n \in 1..Len(calls) |-> calls[n].who]

Last(q) == q[Len(q)]

\* this step logged an event of one of the kinds
Logged(kinds) ==
    /\ log' # log \/ nops' # nops
    /\ log' # <<>>
    /\ Last(log').e \in kinds

\* C4, the dispatch of markers: what one-to-one dispatch does for its
\* outputs, markers included, is index by index what Owed says (nothing for
\* Skip, a touch for Touch, an update otherwise)
C4_MarkersDispatched ==
    \A i \in DOMAIN log :
        OneToOne(i) =>
            LET done == OfKind(Children(i), {"set", "touch", "skip"})
            IN  /\ IsPrefix(done, AllOwed(i))
                /\ Returned(i) => done = AllOwed(i)

\* C4, the touch: a touch that returned has had every Function of the
\* cell's trigger list invoked, and if the cell was not re-entered meanwhile
\* the touch itself invoked exactly the list
C4_TouchFires ==
    \A j \in DOMAIN log :
        (log[j].e = "touch" /\ Returned(j)) =>
            /\ \A t \in Range(triggers[log[j].who].values) :
                  \E m \in j + 1..SpanEnd(j) :
                      /\ log[m].e = "call"
                      /\ log[m].who = t
                      /\ log[m].by = log[j].who
            /\ ~Reentered(j) => Invoked(j) = triggers[log[j].who].values

\* C4, the frame: the step that handles a Skip output changes no value, no
\* trigger list position and pushes no frame; the step that handles a Touch
\* output changes no value
C4_MarkerStep ==
    /\ Logged({"skip", "touch"}) => value' = value
    /\ Logged({"skip"}) => triggers' = triggers /\ Len(stack') = Len(stack)

\* C4: for a Skip output the cell keeps its value and none of its triggers
\* is invoked; for a Touch output the value is unchanged and every Function
\* of the cell's trigger list is invoked.
C4_SkipTouch ==
    /\ [](C4_MarkersDispatched /\ C4_TouchFires)
    /\ [][C4_MarkerStep]_vars

\* C4 witness: a returned call whose outputs were Skip for one cell and
\* Touch for a cell that has triggers
C4_Witness ==
    \E i \in DOMAIN log :
        /\ OneToOne(i)
        /\ Returned(i)
        /\ log[i].out = <<SkipType, TouchType>>
        /\ triggers[sets[log[i].who].values[2]].values # <<>>

-----------------------------------------------------------------------------
(* Claims about Variable.set_value *)

\* the log positions of the calls the frame opened at j made itself
ChildCalls(j) ==
    {m \in j + 1..SpanEnd(j) : log[m].e = "call" /\ log[m].d = log[j].d + 1}

\* the log positions before m at which cell c was updated
SetsBefore(c, m) == {n \in 1..m - 1 : log[n].e = "set" /\ log[n].who = c}

Max(S) == CHOOSE x \in S : \A y \in S : x >= y

-----------------------------------------------------------------------------
(* The classifier on its own: get_entity on one record under one scheme *)

GraphicsKeys == {"type", "fill", "style"}

\* the values a graphics attribute takes in the records of the model
KeyValues(k) ==
    CASE k = "type" -> {VStr("ellipse"), VStr("roundrectangle")}
      [] k = "fill" -> {VStr("#0000FF"), VStr("#00FF00"), VStr("#FF0000")}
      [] k = "style" -> {VStr("dashed"), VStr("dashed-dotted"), VInt(0)}

GraphicsDicts ==
    UNION {{g \in [S -> UNION {KeyValues(k) : k \in GraphicsKeys}] :
                \A k \in S : g[k] \in KeyValues(k)} : S \in SUBSET GraphicsKeys}

\* records as read_gml produces them for a node or an edge: a graphics
\* block with any of its attributes missing, no graphics block at all, or
\* a scalar where the block is expected
Records ==
    {VDict([id |-> VInt(1), graphics |-> VDict(g)]) : g \in GraphicsDicts}
        \cup {VDict([id |-> VInt(1)]),
              VDict([id |-> VInt(1), graphics |-> VInt(5)]),
              VDict([id |-> VInt(1), graphics |-> VStr("ellipse")])}

\* a scheme whose patterns overlap, with the not-equals relation
OverlapPatterns ==
    <<[role |-> "variable",
       pattern |-> <<Triple(NODE_TYPE, "equals", Word("ellipse"))>>],
      [role |-> "plain",
       pattern |-> <<Triple(EDGE_STYLE, "does_not_equal", VStr("dashed"))>>],
      [role |-> "solid",
       pattern |-> <<Triple(EDGE_STYLE, "does_not_equal", VFalse),
                     Triple(COLOR, "equals", VStr("#FF0000"))>>]>>

\* a scheme with the contains relation
ContainsPatterns ==
    <<[role |-> "blue",
       pattern |-> <<Triple(COLOR, "equals", Word("#0000FF")),
                     Triple(NODE_TYPE, "contains", VStr("rectangle"))>>],
      [role |-> "dashes",
       pattern |-> <<Triple(EDGE_STYLE, "contains", VStr("dashed"))>>]>>

Schemes == {ConfigPatterns, OverlapPatterns, ContainsPatterns}

\* an empty workspace with nothing running
NoRuntime ==
    /\ value = <<>>
    /\ triggers = <<>>
    /\ gets = <<>>
    /\ sets = <<>>
    /\ func = <<>>
    /\ stack = <<>>
    /\ log = <<>>
    /\ nops = 0

InitClassify ==
    /\ NoRuntime
    /\ err = "none"
    /\ params \in Records
    /\ patterns \in Schemes
    /\ matches = <<>>
    /\ entity = "unset"
    /\ cpc = "start"
    /\ NoBuild
    /\ NoOther

\* get_entity(params): every pattern is matched, then the matches counted
classify ==
    /\ cpc = "start"
    /\ cpc' = "done"
    /\ matches' = match_list(patterns, params, 1)
    /\ err' = raised(matches')
    /\ entity' = IF raised(matches') = "none"
                 THEN get_entity(matches', patterns) ELSE "unset"
    /\ UNCHANGED <<rvars, params, patterns, bvars, ovars>>

NextClassify == classify

SpecClassify == InitClassify /\ [][NextClassify]_vars

\* the patterns of the scheme that match the record
Hits == {i \in DOMAIN patterns :
            pattern_match(patterns[i].pattern, params) = "True"}

\* C6: get_entity returns the role of the matching pattern when exactly one
\* pattern of the scheme matches the record, and none when no pattern or
\* two or more patterns match.
C6_Exclusive ==
    (cpc = "done" /\ err = "none") =>
        /\ Cardinality(Hits) = 1 => \E i \in Hits : entity = patterns[i].role
        /\ Cardinality(Hits) # 1 => entity = "None"

\* C6 witness: exactly one of several patterns matched and its role came back
C6_Witness ==
    /\ cpc = "done"
    /\ err = "none"
    /\ Cardinality(Hits) = 1
    /\ entity = "gets"

\* where a path ends in a record: "present", "absent" (a mapping on the way
\* lacks the key) or "blocked" (a scalar stands where a mapping is expected)
RECURSIVE PathState(_, _)
PathState(rec, path) ==
    IF path = <<>> THEN "present"
    ELSE IF rec.t # "dict" THEN "blocked"
    ELSE IF Head(path) \notin DOMAIN rec.d THEN "absent"
    ELSE PathState(rec.d[Head(path)], Tail(path))

Absent(rec, path) == PathState(rec, path) = "absent"

\* the value at a present path
RECURSIVE Lookup(_, _)
Lookup(rec, path) ==
    IF path = <<>> THEN rec ELSE Lookup(rec.d[Head(path)], Tail(path))

\* the triples of a pattern whose path is absent from the record
AbsentTriples(pat) == {k \in DOMAIN pat : Absent(params, pat[k].field)}

\* C7 as claimed: whenever one of the pattern's paths is absent from the
\* record, what Pattern.match returns is false, whatever the relation and
\* the expected value.
C7_AbsentIsNonMatch ==
    cpc = "done" =>
        \A i \in DOMAIN matches :
            (AbsentTriples(patterns[i].pattern) # {}
                /\ matches[i] \in {"True", "False"}) => matches[i] = "False"

\* an equals or not-equals triple that fails on the value False
FailsOnFalse(tr) ==
    \/ tr.relation = "equals" /\ ~py_eq(VFalse, tr.value)
    \/ tr.relation = "does_not_equal" /\ py_eq(VFalse, tr.value)

\* an equals or not-equals triple that holds on the value at its path
HoldsOnValue(tr) ==
    LET a == Lookup(params, tr.field)
    IN  IF tr.relation = "equals" THEN py_eq(a, tr.value) ELSE ~py_eq(a, tr.value)

\* C7 as amended: an absent path is read as the value False.  Pattern.match
\* never returns true when a triple on an absent path fails on False
\* (equals with an expected value other than False, not-equals with False);
\* and a pattern of equals and not-equals triples returns true when its
\* triples on absent paths hold on False, as (style equals False) of the
\* configured edge patterns does, and its other triples hold.
C7_AbsentReadsFalse ==
    cpc = "done" =>
        \A i \in DOMAIN matches :
            LET pat == patterns[i].pattern
                miss == {k \in AbsentTriples(pat) : FailsOnFalse(pat[k])}
            IN  /\ miss # {} => matches[i] # "True"
                /\ (/\ miss = {}
                    /\ \A k \in DOMAIN pat :
                          /\ pat[k].relation \in {"equals", "does_not_equal"}
                          /\ PathState(params, pat[k].field) # "blocked"
                          /\ k \notin AbsentTriples(pat) => HoldsOnValue(pat[k]))
                      => matches[i] = "True"

\* C7 witness: the configured reads-from pattern matched an edge record
\* that has no style attribute
C7_Witness ==
    /\ cpc = "done"
    /\ \E i \in DOMAIN matches :
          /\ patterns[i].role = "gets"
          /\ matches[i] = "True"
          /\ Absent(params, EDGE_STYLE)

-----------------------------------------------------------------------------
(* setup_workspace(nodes, edges, definitions) and the calls that follow *)

ELLIPSE == "ellipse"
ROUNDRECTANGLE == "roundrectangle"
BLUE == "#0000FF"
GREEN == "#00FF00"
RED == "#FF0000"

\* a node record: id, label and shape
Node(ind, label, shape) ==
    VDict([id |-> VInt(ind), label |-> VText(label),
           graphics |-> VDict([type |-> VStr(shape)])])

\* an edge record with a line colour; it has an order label unless the
\* order is pos_inf
Edge(source, target, fill, order) ==
    IF order.inf
    THEN VDict([source |-> VInt(source), target |-> VInt(target),
                graphics |-> VDict([fill |-> VStr(fill)])])
    ELSE VDict([source |-> VInt(source), target |-> VInt(target),
                label |-> VInt(order.i),
                graphics |-> VDict([fill |-> VStr(fill)])])

\* an edge record drawn with a dashed line
DashedEdge(source, target, fill) ==
    VDict([source |-> VInt(source), target |-> VInt(target),
           graphics |-> VDict([fill |-> VStr(fill), style |-> VStr("dashed")])])

\* a definitions module with cells x, y, z and computations f, g, h, k
Definitions(c) ==
    (<<"x">> :> VInt(0)) @@ (<<"y">> :> VInt(0)) @@ (<<"z">> :> VInt(0))
        @@ (<<"f">> :> c) @@ (<<"g">> :> Const(VNone))
        @@ (<<"h">> :> Const(VNone)) @@ (<<"k">> :> Const(VNone))

\* the labels of the two cells: with a description after the name or without
CellLabels(described) ==
    IF described THEN [x |-> <<"@", "x", " ", "0">>, y |-> <<"@", "y", " ", "0">>]
    ELSE [x |-> <<"@", "x">>, y |-> <<"@", "y">>]

\* cells x and y, computation f, x -> f reads-from, f -> y writes-to
EndToEnd(described, c) ==
    [nodes |-> <<Node(1, CellLabels(described).x, ELLIPSE),
                 Node(2, CellLabels(described).y, ELLIPSE),
                 Node(3, <<"@", "f">>, ROUNDRECTANGLE)>>,
     edges |-> <<Edge(1, 3, BLUE, pos_inf), Edge(3, 2, GREEN, pos_inf)>>,
     definitions |-> Definitions(c)]

\* the callables f of the end-to-end diagrams
EndToEndCallables == {Dec, Const(VInt(1)), Const(TouchType), PassArgs}

\* the orders an edge of a fan may carry
Orders == {pos_inf, Pri(-1), Pri(0), Pri(1), Pri(3)}

\* the edge lists a fan fills: triggers of a cell, triggers, gets and sets
\* of a computation
Hubs == {"cell triggers", "triggers", "gets", "sets"}

\* a hub node (id 1) and three peers (ids 2, 3, 4), and one edge between
\* the hub and each of the first Len(orders) peers, in peer order
Fan(hub, orders) ==
    LET cells == <<"x", "y", "z">>
        comps == <<"g", "h", "k">>
        fill == CASE hub = "gets" -> BLUE [] hub = "sets" -> GREEN [] OTHER -> RED
        peer(i) == IF hub \in {"gets", "sets"}
                   THEN Node(i + 1, <<"@", cells[i]>>, ELLIPSE)
                   ELSE Node(i + 1, <<"@", comps[i]>>, ROUNDRECTANGLE)
        center == IF hub = "cell triggers" THEN Node(1, <<"@", "x">>, ELLIPSE)
                  ELSE Node(1, <<"@", "f">>, ROUNDRECTANGLE)
    IN  [nodes |-> <<center, peer(1), peer(2), peer(3)>>,
         edges |-> [i \in 1..Len(orders) |->
                       IF hub = "gets" THEN Edge(i + 1, 1, fill, orders[i])
                       ELSE Edge(1, i + 1, fill, orders[i])],
         definitions |-> Definitions(Const(VNone))]

\* the orders of the edges of a fan: one per peer, for the first peers
OrderSeqs == UNION {[1..n -> Orders] : n \in 0..Len(ObjKeys) - 1}

\* diagrams that setup_workspace cannot build or builds only in part
Irregular ==
    LET e2e == EndToEnd(FALSE, Dec)
    IN  {\* an edge to an id that is no node
         [e2e EXCEPT !.edges = Append(@, Edge(3, 9, GREEN, pos_inf))],
         \* an edge from an id that is no node
         [e2e EXCEPT !.edges = Append(@, Edge(9, 3, BLUE, Pri(1)))],
         \* a fires-after edge cell -> cell, and cell -> computation
         [e2e EXCEPT !.edges = <<Edge(2, 1, RED, pos_inf), Edge(1, 3, RED, Pri(1))>>],
         \* a reads-from edge that ends at a cell
         [e2e EXCEPT !.edges = Append(@, Edge(1, 2, BLUE, pos_inf))],
         \* a writes-to edge that starts at a cell
         [e2e EXCEPT !.edges = Append(@, Edge(1, 2, GREEN, pos_inf))],
         \* a dashed edge and a node of another shape
         [e2e EXCEPT !.edges = Append(@, DashedEdge(1, 3, RED)),
                     !.nodes = Append(@, Node(4, <<"@", "g">>, "triangle"))],
         \* two cells of the same name, two computations of the same name
         [e2e EXCEPT !.nodes = Append(@, Node(4, <<"@", "x">>, ELLIPSE))],
         [e2e EXCEPT !.nodes = Append(@, Node(4, <<"@", "f">>, ROUNDRECTANGLE))],
         \* a cell and a computation whose names are not defined
         [e2e EXCEPT !.nodes = Append(@, Node(4, <<"@", "u">>, ELLIPSE))],
         [e2e EXCEPT !.nodes = Append(@, Node(4, <<"@", "u">>, ROUNDRECTANGLE))],
         \* labels with two name tokens and with none
         [e2e EXCEPT !.nodes = Append(@, Node(4, <<"@", "z", "@">>, ELLIPSE))],
         [e2e EXCEPT !.nodes = Append(@, Node(4, <<"g">>, ROUNDRECTANGLE))],
         \* a computation labelled with a description
         [e2e EXCEPT !.nodes = Append(@, Node(4, <<"@", "g", " ", "g">>, ROUNDRECTANGLE))]}

Diagrams ==
    {EndToEnd(d, c) : d \in BOOLEAN, c \in EndToEndCallables}
        \cup {Fan(hub, orders) : hub \in Hubs, orders \in OrderSeqs}
        \cup Irregular

InitBuild ==
    /\ \E d \in Diagrams :
          /\ nodes = d.nodes
          /\ edges = d.edges
          /\ definitions = d.definitions
          /\ bpc = resume("nodes", 1, d.nodes, d.edges)
    /\ id_dict = <<>>
    /\ variables = <<>>
    /\ functions = <<>>
    /\ value = <<>>
    /\ triggers = <<>>
    /\ gets = <<>>
    /\ sets = <<>>
    /\ func = <<>>
    /\ stack = <<>>
    /\ log = <<>>
    /\ nops = 0
    /\ err = "none"
    /\ params = VDict([id |-> VInt(0)])
    /\ patterns = ConfigPatterns
    /\ matches = <<>>
    /\ entity = "unset"
    /\ cpc = "off"
    /\ NoOther

\* an exception leaves setup_workspace: no workspace is returned
fail(exc) ==
    /\ bpc' = [bpc EXCEPT !.at = "failed"]
    /\ err' = exc

\* the i-th node or edge is done
proceed ==
    /\ bpc' = resume(bpc.at, bpc.i + 1, nodes, edges)
    /\ err' = err

\* one turn of the loop over the nodes, lines 518-527
scan_node ==
    /\ bpc.at = "nodes"
    /\ LET node == nodes[bpc.i]
           matched == classified(node)
           made == from_definitions(definitions, node)
           obj == ObjKeys[bpc.i]
       IN  IF matched.exc # "none"
           THEN fail(matched.exc)
                /\ UNCHANGED <<value, triggers, gets, sets, func, variables,
                               functions, id_dict>>
           ELSE IF matched.role \notin {"variable", "function"}
           THEN proceed
                /\ UNCHANGED <<value, triggers, gets, sets, func, variables,
                               functions, id_dict>>
           ELSE IF made.exc # "none"
           THEN fail(made.exc)
                /\ UNCHANGED <<value, triggers, gets, sets, func, variables,
                               functions, id_dict>>
           ELSE IF matched.role = "variable"
           THEN \* Variable(name, value, description=description)
                /\ value' = (obj :> definitions[made.name]) @@ value
                /\ triggers' = (obj :> PriorityList(<<>>)) @@ triggers
                /\ UNCHANGED <<gets, sets, func, functions>>
                /\ IF made.name \in keys(variables)
                   THEN \* NamedList.append raises
                        fail("ValueError") /\ UNCHANGED <<variables, id_dict>>
                   ELSE /\ variables' = Append(variables,
                              [key |-> made.name, obj |-> obj,
                               description |-> made.description])
                        /\ IF "id" \in DOMAIN node.d
                           THEN /\ id_dict' = update(id_dict, node.d["id"].i, obj)
                                /\ proceed
                           ELSE fail("KeyError") /\ UNCHANGED id_dict
           ELSE \* Function(function, name=name, description=description)
                /\ func' = (obj :> definitions[made.name]) @@ func
                /\ gets' = (obj :> PriorityList(<<>>)) @@ gets
                /\ sets' = (obj :> PriorityList(<<>>)) @@ sets
                /\ triggers' = (obj :> PriorityList(<<>>)) @@ triggers
                /\ UNCHANGED <<value, variables>>
                /\ IF made.name \in keys(functions)
                   THEN fail("ValueError") /\ UNCHANGED <<functions, id_dict>>
                   ELSE /\ functions' = Append(functions,
                              [key |-> made.name, obj |-> obj,
                               description |-> made.description])
                        /\ IF "id" \in DOMAIN node.d
                           THEN /\ id_dict' = update(id_dict, node.d["id"].i, obj)
                                /\ proceed
                           ELSE fail("KeyError") /\ UNCHANGED id_dict
    /\ UNCHANGED <<nodes, edges, definitions, stack, log, nops, cvars, ovars>>

\* mutant: the peer is appended twice
wire_twice(lists, holder_id, peer_id, priority) ==
    IF holder_id \notin DOMAIN id_dict THEN Exc("KeyError")
    ELSE IF id_dict[holder_id] \notin DOMAIN lists THEN Exc("AttributeError")
    ELSE IF peer_id \notin DOMAIN id_dict THEN Exc("KeyError")
    ELSE Ok([lists EXCEPT ![id_dict[holder_id]] =
                append(append(@, priority, id_dict[peer_id]),
                       priority, id_dict[peer_id])])

\* mutant: an edge with an endpoint that is not in _id_dict is dropped
wire_dropping(lists, holder_id, peer_id, priority) ==
    IF holder_id \notin DOMAIN id_dict \/ peer_id \notin DOMAIN id_dict
    THEN Ok(lists)
    ELSE IF id_dict[holder_id] \notin DOMAIN lists THEN Exc("AttributeError")
    ELSE Ok([lists EXCEPT ![id_dict[holder_id]] =
                append(@, priority, id_dict[peer_id])])

\* holder.<list>.append(priority, peer) of lines 535-539, where holder and
\* peer are looked up in _id_dict: the lists after it, or the exception
wire(lists, holder_id, peer_id, priority) ==
    IF holder_id \notin DOMAIN id_dict THEN Exc("KeyError")
    ELSE IF id_dict[holder_id] \notin DOMAIN lists THEN Exc("AttributeError")
    ELSE IF peer_id \notin DOMAIN id_dict THEN Exc("KeyError")
    ELSE Ok([lists EXCEPT ![id_dict[holder_id]] =
                append(@, priority, id_dict[peer_id])])

\* one turn of the loop over the edges, lines 530-539
scan_edge ==
    /\ bpc.at = "edges"
    /\ LET edge == edges[bpc.i]
           matched == classified(edge)
           priority == get_edge_order(edge)
       IN  IF matched.exc # "none"
           THEN fail(matched.exc) /\ UNCHANGED <<gets, sets, triggers>>
           ELSE IF "target" \notin DOMAIN edge.d \/ "source" \notin DOMAIN edge.d
           THEN fail("KeyError") /\ UNCHANGED <<gets, sets, triggers>>
           ELSE LET target_id == edge.d["target"].i
                    source_id == edge.d["source"].i
                    wired == CASE matched.role = "gets" ->
                                      wire(gets, target_id, source_id, priority)
                               [] matched.role = "sets" ->
                                      wire(sets, source_id, target_id, priority)
                               [] matched.role = "triggers" ->
                                      wire(triggers, source_id, target_id, priority)
                               [] OTHER -> Exc("none")
                IN  IF matched.role \notin {"gets", "sets", "triggers"}
                    THEN proceed /\ UNCHANGED <<gets, sets, triggers>>
                    ELSE IF wired.exc # "none"
                    THEN fail(wired.exc) /\ UNCHANGED <<gets, sets, triggers>>
                    ELSE /\ proceed
                         /\ gets' = IF matched.role = "gets" THEN wired.v ELSE gets
                         /\ sets' = IF matched.role = "sets" THEN wired.v ELSE sets
                         /\ triggers' = IF matched.role = "triggers" THEN wired.v
                                        ELSE triggers
    /\ UNCHANGED <<value, func, nodes, edges, definitions, id_dict, variables,
                   functions, stack, log, nops, cvars, ovars>>

\* Function.sort_edges
sort_edges_function(f) ==
    [sets |-> sort_by_priority(sets[f]),
     gets |-> sort_by_priority(gets[f]),
     triggers |-> sort_by_priority(triggers[f])]

\* Variable.sort_edges
sort_edges_variable(c) == sort_by_priority(triggers[c])

\* the loops of lines 542-546 and the return: every registered cell and
\* computation sorts its edges
order_edges ==
    /\ bpc.at = "order"
    /\ bpc' = [at |-> "returned", i |-> 0]
    /\ triggers' = [o \in DOMAIN triggers |->
                       IF o \in objects(variables) THEN sort_edges_variable(o)
                       ELSE IF o \in objects(functions)
                       THEN sort_edges_function(o).triggers
                       ELSE triggers[o]]
    /\ gets' = [o \in DOMAIN gets |->
                   IF o \in objects(functions) THEN sort_edges_function(o).gets
                   ELSE gets[o]]
    /\ sets' = [o \in DOMAIN sets |->
                   IF o \in objects(functions) THEN sort_edges_function(o).sets
                   ELSE sets[o]]
    /\ UNCHANGED <<value, func, err, nodes, edges, definitions, id_dict,
                   variables, functions, stack, log, nops, cvars, ovars>>

NextBuild ==
    \/ scan_node
    \/ scan_edge
    \/ order_edges
    \/ Next

SpecBuild == InitBuild /\ [][NextBuild]_vars

-----------------------------------------------------------------------------
(* Properties of the build *)

\* what setup_workspace was called with
Diagram == [nodes |-> nodes, edges |-> edges, definitions |-> definitions]

\* the entity registered under a name
named(registry, name) ==
    registry[CHOOSE i \in DOMAIN registry : registry[i].key = name].obj

\* run() on f was called by the caller and has returned, and the cell x
\* holds a value the caller gave it with update
RanAfterUpdate(x, f) ==
    /\ stack = <<>>
    /\ err = "none"
    /\ log # <<>>
    /\ log[1].e = "call" /\ log[1].who = f /\ log[1].by = "caller"
    /\ value[x] \in InputValues

\* C8: for the diagram with cells labelled `@x 0` and `@y 0`, computation
\* `@f`, a reads-from edge x -> f and a writes-to edge f -> y, and definitions
\* for x, y and f, the build succeeds and registers the cells as x and y and
\* the computation as f; afterwards update(v) on x followed by run() on f
\* leaves y equal to definitions.f(v) (f returning a number).
C8_EndToEnd ==
    (\E c \in EndToEndCallables : Diagram = EndToEnd(TRUE, c)) =>
        /\ bpc.at # "failed"
        /\ bpc.at = "returned" =>
              /\ keys(variables) = {<<"x">>, <<"y">>}
              /\ keys(functions) = {<<"f">>}
              /\ LET x == named(variables, <<"x">>)
                     y == named(variables, <<"y">>)
                     f == named(functions, <<"f">>)
                     r == apply(func[f], <<value[x]>>).r
                 IN  (RanAfterUpdate(x, f) /\ r.t = "int") => value[y] = r

\* the edge lists of the entities: kind, holder and list
EdgeLists ==
    {[kind |-> "triggers", of |-> o, list |-> triggers[o]] : o \in DOMAIN triggers}
        \cup {[kind |-> "gets", of |-> o, list |-> gets[o]] : o \in DOMAIN gets}
        \cup {[kind |-> "sets", of |-> o, list |-> sets[o]] : o \in DOMAIN sets}

\* the edges that were wired: drawn in one of the three edge colours with a
\* solid line
WiredEdges ==
    {i \in DOMAIN edges :
        /\ "style" \notin DOMAIN edges[i].d["graphics"].d
        /\ edges[i].d["graphics"].d["fill"].s \in {BLUE, GREEN, RED}}

\* C9: an edge without an order label gets the positive-infinity sentinel
\* priority, and after the lists are sorted every entry carrying the sentinel
\* comes after every entry carrying an ordinary integer priority, whatever
\* the order of the appends.
C9_SentinelSortsLast ==
    bpc.at = "returned" =>
        \A el \in EdgeLists :
            LET P == el.list.priorities
            IN  /\ \A i, j \in DOMAIN P : (P[i].inf /\ ~P[j].inf) => j < i
                /\ Cardinality({i \in DOMAIN P : P[i].inf}) <=
                      Cardinality({i \in WiredEdges : "label" \notin DOMAIN edges[i].d})

\* the entries appended to the list `kind` of entity o, in the order of the
\* edges: reads-from edges by their target, the others by their source
Appended(kind, o) ==
    LET fill == CASE kind = "gets" -> BLUE [] kind = "sets" -> GREEN [] OTHER -> RED
        holder == IF kind = "gets" THEN "target" ELSE "source"
        peer == IF kind = "gets" THEN "source" ELSE "target"
        mine == SelectSeq([i \in DOMAIN edges |-> i],
                    LAMBDA i : /\ i \in WiredEdges
                               /\ edges[i].d["graphics"].d["fill"].s = fill
                               /\ id_dict[edges[i].d[holder].i] = o)
    IN  [j \in DOMAIN mine |->
            [priority |-> IF "label" \in DOMAIN edges[mine[j]].d
                          THEN Pri(edges[mine[j]].d["label"].i) ELSE pos_inf,
             val |-> id_dict[edges[mine[j]].d[peer].i]]]

\* L holds the entries A reordered so that priorities never decrease and
\* entries of equal priority keep the order they have in A
IsStableSortOf(L, A) ==
    /\ Len(L.values) = Len(A)
    /\ Len(L.priorities) = Len(A)
    /\ \E p \in [1..Len(A) -> 1..Len(A)] :
          /\ \A i, j \in 1..Len(A) : i # j => p[i] # p[j]
          /\ \A i \in 1..Len(A) :
                /\ L.priorities[i] = A[p[i]].priority
                /\ L.values[i] = A[p[i]].val
          /\ \A i, j \in 1..Len(A) :
                i < j =>
                    /\ A[p[i]].priority.i <= A[p[j]].priority.i
                    /\ A[p[i]].priority.i = A[p[j]].priority.i => p[i] < p[j]

\* C10: after setup_workspace has returned, every edge list of every
\* registered cell and computation whose entries were appended with integer
\* priorities holds the same pairs in non-decreasing priority order, entries
\* of equal priority in the order of their appends.
C10_StableSortedLists ==
    bpc.at = "returned" =>
        \A el \in EdgeLists :
            LET A == Appended(el.kind, el.of)
            IN  (\A j \in DOMAIN A : ~A[j].priority.inf) =>
                    IsStableSortOf(el.list, A)

\* C10 witness: (3, a), (1, b), (1, c) were appended to the triggers of a
\* cell and the built list is b, c, a
C10_Witness ==
    /\ bpc.at = "returned"
    /\ \E o \in objects(variables) :
          /\ Appended("triggers", o) =
                <<[priority |-> Pri(3), val |-> "o2"],
                  [priority |-> Pri(1), val |-> "o3"],
                  [priority |-> Pri(1), val |-> "o4"]>>
          /\ triggers[o].values = <<"o3", "o4", "o2">>

-----------------------------------------------------------------------------
(* A NamedList on its own: any calls of append, pop, item assignment and *)
(* sort_by_value                                                          *)

\* the keys the caller uses
ListKeys == {"a", "b", "c"}

\* the indices the caller uses on the list L: every key, and every position
\* from one before the first (counted from the end) to one after the last
Indices(L) ==
    {Key(k) : k \in ListKeys}
        \cup {Pos(i) : i \in (0 - Len(L.values) - 1)..Len(L.values)}

InitRegistry ==
    /\ NoRegistry
    /\ NoReader
    /\ NoConstruction
    /\ NoLabel
    /\ NoRuntime
    /\ err = "none"
    /\ NoClassifier
    /\ NoBuild

\* the call `op` ended with `out`
called(op, idx, val, out) ==
    /\ nlops < MaxListOps
    /\ nlops' = nlops + 1
    /\ nlist' = out.L
    /\ nlop' = ListCall(op, idx, val, nlist, out)
    /\ UNCHANGED <<plist, plop, rvars, err, cvars, bvars, gvars, kvars, pvars>>

NamedList_append ==
    \E k \in ListKeys, v \in InputValues :
        called("append", Key(k), v, named_append(nlist, k, v))

NamedList_pop ==
    \E idx \in Indices(nlist) : called("pop", idx, VNone, named_pop(nlist, idx))

NamedList_setitem ==
    \E idx \in Indices(nlist), v \in InputValues :
        called("setitem", idx, v, named_setitem(nlist, idx, v))

NamedList_sort_by_value ==
    called("sort_by_value", Pos(0), VNone, sort_by_value(nlist))

NextRegistry ==
    \/ NamedList_append
    \/ NamedList_pop
    \/ NamedList_setitem
    \/ NamedList_sort_by_value

SpecRegistry == InitRegistry /\ [][NextRegistry]_vars

\* the 1-based position of the entry an index names in the list L, 0 when
\* it names none
Entry(L, idx) ==
    IF idx.str
    THEN IF \E i \in DOMAIN L.keys : L.keys[i] = idx.k
         THEN CHOOSE i \in DOMAIN L.keys : L.keys[i] = idx.k
         ELSE 0
    ELSE list_position(L.values, idx.i)

\* C11: NamedList.pop takes an integer position or an existing string key;
\* in both cases it removes exactly that entry, key and value, returns the
\* removed value and leaves the other entries in their order.
C11_PopRemovesEntry ==
    (nlop.op = "pop" /\ Entry(nlop.before, nlop.index) # 0) =>
        LET p == Entry(nlop.before, nlop.index)
        IN  /\ nlop.exc = "none"
            /\ nlop.ret = nlop.before.values[p]
            /\ nlist.keys = without(nlop.before.keys, p)
            /\ nlist.values = without(nlop.before.values, p)

-----------------------------------------------------------------------------
(* Duplicate names in a build *)

\* the names under which a registry holds an entity
Names(registry) == {registry[i].key : i \in DOMAIN registry}

\* the node that the node loop is at resolves, as a cell or as a
\* computation, to a name that is registered for that kind already
AtDuplicate ==
    /\ bpc.at \in {"nodes", "failed"}
    /\ bpc.i \in DOMAIN nodes
    /\ LET node == nodes[bpc.i]
           made == from_definitions(definitions, node)
       IN  /\ classified(node).exc = "none"
           /\ made.exc = "none"
           /\ \/ /\ classified(node).role = "variable"
                 /\ made.name \in Names(variables)
              \/ /\ classified(node).role = "function"
                 /\ made.name \in Names(functions)

\* a step from a duplicate node fails with ValueError and leaves both
\* registries as they were; a failed build stays failed
C12_Step ==
    /\ (bpc.at = "nodes" /\ AtDuplicate) =>
          /\ bpc'.at = "failed"
          /\ err' = "ValueError"
          /\ variables' = variables
          /\ functions' = functions
    /\ bpc.at = "failed" => (bpc'.at = "failed" /\ value' = value /\ func' = func)

\* the keys of a registry are pairwise distinct
DistinctNames(registry) ==
    \A i, j \in DOMAIN registry : registry[i].key = registry[j].key => i = j

\* C12: appending a key that a registry already holds fails with an error
\* and leaves the registry (keys, values, order) unchanged, so a build with
\* two cell nodes or two computation nodes of the same name fails and the
\* first entity is not overwritten.
C12_DuplicateRejected ==
    /\ [](DistinctNames(variables) /\ DistinctNames(functions))
    /\ [][C12_Step]_vars

\* C12 witness: the build has failed with ValueError at a second computation
\* node named like a registered one
C12_Witness ==
    /\ bpc.at = "failed"
    /\ err = "ValueError"
    /\ AtDuplicate
    /\ classified(nodes[bpc.i]).role = "function"
    /\ Len(functions) = 1

-----------------------------------------------------------------------------
(* The reader of parsing.py: parse_line, interpret_value, read_gml.  A     *)
(* line is the sequence of its characters, without the newline that ends  *)
(* it in the file.                                                         *)

\* config["parsing"]
apostrophe == "\""
separator == "\t"
bracket_open == "["
bracket_close == "]"

\* the characters str.strip() removes that a line of the model can hold
Whitespace == {" ", "\t"}

RECURSIVE lstrip(_)
\* str.lstrip()
lstrip(text) ==
    IF text # <<>> /\ Head(text) \in Whitespace THEN lstrip(Tail(text)) ELSE text

RECURSIVE rstrip(_)
\* str.rstrip()
rstrip(text) ==
    IF text # <<>> /\ text[Len(text)] \in Whitespace
    THEN rstrip(SubSeq(text, 1, Len(text) - 1))
    ELSE text

\* str.strip()
strip(text) == rstrip(lstrip(text))

\* preprocess_line(line): the lines of the model carry no newline, so the
\* replace leaves the stripped line as it is
preprocess_line(line) == strip(line)

\* str.rfind(ch): 0-based position of the last ch, -1 when there is none
str_rfind(text, ch) ==
    IF \E i \in DOMAIN text : text[i] = ch
    THEN Max({i \in DOMAIN text : text[i] = ch}) - 1
    ELSE -1

RECURSIVE split(_, _)
\* str.split(sep) for a one-character sep
split(text, sep) ==
    IF str_find(text, sep) = -1 THEN <<text>>
    ELSE <<SubSeq(text, 1, str_find(text, sep))>>
             \o split(SubSeq(text, str_find(text, sep) + 2, Len(text)), sep)

\* what parse_line gives: the class of the ParseOutput and its attributes,
\* or the exception it raised
ParseOutput(kind, field, string) ==
    [exc |-> "none", kind |-> kind, field |-> field, string |-> string]

\* parse_line, lines 356-357: the test for the end of a continuation
ends_continuation(line) ==
    /\ str_find(line, apostrophe) = Len(line) - 1
    /\ str_rfind(line, apostrophe) = Len(line) - 1

\* mutant: a line of three or more items is skipped
invalid_line_skipped(line) == ParseOutput("InvalidKeyVal", <<>>, <<>>)

\* parse_line, line 354: raise ValueError("Invalid line: ...")
invalid_line(line) ==
    [ParseOutput("none", <<>>, line) EXCEPT !.exc = "ValueError"]

\* parse_line(line, continued)
parse_line(line, cont) ==
    LET separated == split(line, separator)
        no_items == Len(separated)
    IN  IF ~cont
        THEN IF no_items = 2
             THEN IF /\ str_find(separated[2], apostrophe) = 0
                     /\ str_rfind(separated[2], apostrophe) = 0
                  THEN ParseOutput("ContinuationStarts", separated[1], separated[2])
                  ELSE IF \/ separated[2] = <<"\"", "\"">>
                          \/ separated[2] = <<"'", "'">>
                  THEN ParseOutput("InvalidKeyVal", <<>>, <<>>)
                  ELSE ParseOutput("ValidKeyVal", separated[1], separated[2])
             ELSE IF no_items = 1
             THEN IF separated[1] = <<bracket_open>>
                  THEN ParseOutput("BracketOpen", <<>>, <<bracket_open>>)
                  ELSE IF separated[1] = <<bracket_close>>
                  THEN ParseOutput("BracketClose", <<>>, <<bracket_close>>)
                  ELSE ParseOutput("SingleWord", <<>>, line)
             ELSE invalid_line(line)
        ELSE IF ends_continuation(line)
             THEN ParseOutput("ContinuationEnds", <<>>, line)
             ELSE ParseOutput("Continuation", <<>>, line)

\* the decimal digits
Digits == <<"0", "1", "2", "3", "4", "5", "6", "7", "8", "9">>

\* the value of a decimal digit
digit_value(ch) == (CHOOSE i \in DOMAIN Digits : Digits[i] = ch) - 1

RECURSIVE int_value(_)
\* the number a string of digits denotes
int_value(text) ==
    IF text = <<>> THEN 0
    ELSE 10 * int_value(SubSeq(text, 1, Len(text) - 1)) + digit_value(text[Len(text)])

\* int(value) succeeds: white space around a string of digits.  The lines
\* of the model have no sign, no underscore between digits, no point and
\* no exponent, so float(value) fails whenever int(value) does.
is_int(text) ==
    /\ strip(text) # <<>>
    /\ \A i \in DOMAIN strip(text) : \E j \in DOMAIN Digits : Digits[j] = strip(text)[i]

\* interpret_value(value)
interpret_value(text) ==
    IF text = <<>> THEN Exc("IndexError")
    ELSE LET a == IF Head(text) = apostrophe THEN Tail(text) ELSE text
         IN  IF a = <<>> THEN Exc("IndexError")
             ELSE LET b == IF a[Len(a)] = apostrophe
                           THEN SubSeq(a, 1, Len(a) - 1) ELSE a
                  IN  IF is_int(b) THEN Ok(VInt(int_value(strip(b))))
                      ELSE Ok(VText(b))

RECURSIVE decimal(_)
\* "{}".format(n) for n >= 0
decimal(n) ==
    IF n < 10 THEN <<Digits[n + 1]>>
    ELSE decimal(n \div 10) \o <<Digits[(n % 10) + 1]>>

\* mutant: one counter for all stepped fields
format_field_shared(field, counts) ==
    IF field \in DOMAIN counts
    THEN LET n == 1 + Max({counts[f] : f \in DOMAIN counts})
         IN  [name |-> field \o <<"_">> \o decimal(n),
              n_fields |-> [f \in DOMAIN counts |-> n]]
    ELSE [name |-> field, n_fields |-> counts]

\* read_gml's format_field(field): the name to push and n_fields after it
format_field(field, counts) ==
    IF field \in DOMAIN counts
    THEN [name |-> field \o <<"_">> \o decimal(counts[field] + 1),
          n_fields |-> [counts EXCEPT ![field] = @ + 1]]
    ELSE [name |-> field, n_fields |-> counts]

RECURSIVE set_dict_value(_, _, _)
\* common.set_dict_value(dic, keys, value): the dict after it.  setdefault
\* on a value that is no dict raises AttributeError, item assignment on it
\* TypeError.
set_dict_value(dic, ks, val) ==
    IF dic.t # "dict"
    THEN IF Len(ks) = 1 THEN Exc("TypeError") ELSE Exc("AttributeError")
    ELSE IF Len(ks) = 1
    THEN Ok(VDict((Head(ks) :> val) @@ dic.d))
    ELSE LET sub == IF Head(ks) \in DOMAIN dic.d THEN dic.d[Head(ks)]
                    ELSE EmptyDict
             inner == set_dict_value(sub, Tail(ks), val)
         IN  IF inner.exc # "none" THEN inner
             ELSE Ok(VDict((Head(ks) :> inner.v) @@ dic.d))

\* the locals of read_gml
Locals ==
    [result |-> result, fields |-> fields, continued |-> continued,
     n_fields |-> n_fields, field |-> cur_field, val |-> cur_val]

\* the body of the loop of read_gml ended with the locals s, or raised exc
Turn(exc, s) == [exc |-> exc, s |-> s]

\* set_dict_value(result, fields + [field], interpret_value(val)) on the
\* locals s
store(s) ==
    LET interpreted == interpret_value(s.val)
        stored == set_dict_value(s.result, s.fields \o <<s.field>>, interpreted.v)
    IN  IF interpreted.exc # "none" THEN Turn(interpreted.exc, s)
        ELSE IF stored.exc # "none" THEN Turn(stored.exc, s)
        ELSE Turn("none", [s EXCEPT !.result = stored.v])

\* read_gml, lines 387-414: the body of the loop on one ParseOutput
loop_body(s, parsed) ==
    CASE parsed.kind = "SingleWord" ->
            LET formatted == format_field(parsed.string, s.n_fields)
            IN  Turn("none", [s EXCEPT !.field = formatted.name,
                                       !.n_fields = formatted.n_fields,
                                       !.fields = Append(@, formatted.name)])
      [] parsed.kind = "BracketClose" ->
            IF s.fields = <<>> THEN Turn("IndexError", s)
            ELSE Turn("none", [s EXCEPT !.fields = SubSeq(@, 1, Len(@) - 1)])
      [] parsed.kind = "ContinuationStarts" ->
            Turn("none", [s EXCEPT !.continued = TRUE,
                                   !.field = parsed.field,
                                   !.val = parsed.string])
      [] parsed.kind = "Continuation" ->
            Turn("none", [s EXCEPT !.val = @ \o <<" ">> \o parsed.string])
      [] parsed.kind = "ContinuationEnds" ->
            store([s EXCEPT !.continued = FALSE,
                            !.val = @ \o <<" ">> \o parsed.string])
      [] parsed.kind = "ValidKeyVal" ->
            store([s EXCEPT !.field = parsed.field, !.val = parsed.string])
      [] parsed.kind \in {"BracketOpen", "InvalidKeyVal"} -> Turn("none", s)

-----------------------------------------------------------------------------
(* read_gml on the files of at most MaxLines lines of Lines *)

\* the lines a file may hold
Lines ==
    {<<"n", "o", "d", "e">>,
     <<"\t", "e", "d", "g", "e", " ">>,
     <<"a">>,
     <<"\t", "[">>,
     <<"]">>,
     <<"a", "\t", "5">>,
     <<"a", "\t", "\"", "b", "\"">>,
     <<"a", "\t", "\"", "b">>,
     <<"b", "\"">>,
     <<>>,
     <<"a", "\t", "b", "\t", "b">>,
     <<"a", "\t", "\"", "\"">>}

InitRead ==
    /\ result = EmptyDict
    /\ fields = <<>>
    /\ continued = FALSE
    /\ n_fields = [f \in stepped_fields |-> 0]
    /\ cur_field = <<>>
    /\ cur_val = <<>>
    /\ rpc = "reading"
    /\ lines_read = <<>>
    /\ NoRuntime
    /\ err = "none"
    /\ NoClassifier
    /\ NoBuild
    /\ NoRegistry
    /\ NoConstruction
    /\ NoLabel

\* an entry of the history: the line, what parse_line made of it, how the
\* turn ended, and continued and fields before the turn
LineRead(line, parsed, exc) ==
    [line |-> line, parsed |-> parsed, exc |-> exc,
     continued |-> continued, fields |-> fields]

\* one turn of the loop of read_gml: the next line of the file is `line`.
\* An exception leaves read_gml, and its locals are gone with it.
read_line ==
    /\ rpc = "reading"
    /\ Len(lines_read) < MaxLines
    /\ \E line \in Lines :
          LET parsed == parse_line(preprocess_line(line), continued)
              turn == IF parsed.exc # "none" THEN Turn(parsed.exc, Locals)
                      ELSE loop_body(Locals, parsed)
          IN  /\ lines_read' = Append(lines_read, LineRead(line, parsed, turn.exc))
              /\ IF turn.exc # "none"
                 THEN /\ rpc' = "raised"
                      /\ err' = turn.exc
                      /\ UNCHANGED <<result, fields, continued, n_fields,
                                     cur_field, cur_val>>
                 ELSE /\ result' = turn.s.result
                      /\ fields' = turn.s.fields
                      /\ continued' = turn.s.continued
                      /\ n_fields' = turn.s.n_fields
                      /\ cur_field' = turn.s.field
                      /\ cur_val' = turn.s.val
                      /\ UNCHANGED <<rpc, err>>
    /\ UNCHANGED <<rvars, cvars, bvars, lvars, kvars, pvars>>

\* the file has no more lines: read_gml returns result
end_of_file ==
    /\ rpc = "reading"
    /\ rpc' = "returned"
    /\ UNCHANGED <<result, fields, continued, n_fields, cur_field, cur_val,
                   lines_read>>
    /\ UNCHANGED <<rvars, err, cvars, bvars, lvars, kvars, pvars>>

NextRead ==
    \/ read_line
    \/ end_of_file

SpecRead == InitRead /\ [][NextRead]_vars

-----------------------------------------------------------------------------
(* Properties of the reader *)

\* the entry e of the history is a bare-word line: read outside a
\* continuation, one item, and no bracket
IsBareWord(e) ==
    /\ ~e.continued
    /\ str_find(strip(e.line), separator) = -1
    /\ strip(e.line) \notin {<<bracket_open>>, <<bracket_close>>}

\* the number of bare-word lines of the history h whose word is f
Occurrences(h, f) ==
    Cardinality({i \in DOMAIN h : IsBareWord(h[i]) /\ strip(h[i].line) = f})

\* the turn that reads a bare-word line pushes the word, and a stepped
\* field with the number of its occurrences so far
C13_Step ==
    (rpc = "reading" /\ lines_read' # lines_read
        /\ IsBareWord(lines_read'[Len(lines_read')])) =>
        LET word == strip(lines_read'[Len(lines_read')].line)
        IN  /\ rpc' = "reading"
            /\ word \in stepped_fields =>
                  fields' = Append(fields,
                      word \o <<"_">> \o decimal(Occurrences(lines_read', word)))
            /\ word \notin stepped_fields => fields' = Append(fields, word)

\* C13: the N-th bare-word line of the file whose word is a stepped field
\* f is pushed on the bracket stack as f_N, each stepped field counting on
\* its own; a bare word that is no stepped field is pushed unchanged.
C13_SteppedNaming == [][C13_Step]_vars

\* C13 witness: node, edge and node were read and pushed as node_1, edge_1
\* and node_2
C13_Witness ==
    /\ rpc = "reading"
    /\ fields = << <<"n", "o", "d", "e", "_", "1">>,
                   <<"e", "d", "g", "e", "_", "1">>,
                   <<"n", "o", "d", "e", "_", "2">> >>

\* the items of the entry e of the history, as parse_line separates them
Items(e) == split(strip(e.line), separator)

\* e opens a continuation: read outside a continuation, a key and a value
\* that starts with a quote and has no other
IsOpening(e) ==
    /\ ~e.continued
    /\ Len(Items(e)) = 2
    /\ Items(e)[2] # <<>>
    /\ Head(Items(e)[2]) = apostrophe
    /\ str_count(Items(e)[2], apostrophe) = 1

\* e is a middle line: it has no quote
IsMiddle(e) == str_count(strip(e.line), apostrophe) = 0

\* e is a closing line: it ends with a quote and has no other
IsClosing(e) ==
    /\ strip(e.line) # <<>>
    /\ strip(e.line)[Len(strip(e.line))] = apostrophe
    /\ str_count(strip(e.line), apostrophe) = 1

\* the fragments of an opening, a middle and a closing line joined by one
\* space each, without the quotes around them
Joined(o, m, c) ==
    Tail(Items(o)[2]) \o <<" ">> \o strip(m.line) \o <<" ">>
        \o SubSeq(strip(c.line), 1, Len(strip(c.line)) - 1)

\* the last three lines read were an opening, a middle and a closing line
ThreeLineValue ==
    /\ Len(lines_read) >= 3
    /\ IsOpening(lines_read[Len(lines_read) - 2])
    /\ IsMiddle(lines_read[Len(lines_read) - 1])
    /\ IsClosing(lines_read[Len(lines_read)])

\* C14: a value split over an opening line, one middle line and a closing
\* line is stored at (bracket stack + key) as the three fragments joined by
\* one space each, without the quotes, and the bracket stack after the
\* closing line is the one before the opening line.
C14_ContinuationRoundTrip ==
    ThreeLineValue =>
        LET o == lines_read[Len(lines_read) - 2]
            m == lines_read[Len(lines_read) - 1]
            c == lines_read[Len(lines_read)]
        IN  /\ rpc # "raised"
            /\ fields = o.fields
            /\ get_dict_value(result, o.fields \o <<Items(o)[1]>>)
                   = Ok(VText(Joined(o, m, c)))

\* the entry e of the history is a line the reader has no shape for: read
\* outside a continuation, it has three or more items, or it is a close
\* bracket read with an empty bracket stack
IsMalformed(e) ==
    /\ ~e.continued
    /\ \/ Len(Items(e)) > 2
       \/ strip(e.line) = <<bracket_close>> /\ e.fields = <<>>

\* C15: outside a continuation, a line with two or more separators and a
\* close bracket read with an empty bracket stack each end read_gml with an
\* exception: it is the last line read, and read_gml returns no mapping.
C15_ReaderFailure ==
    \A i \in DOMAIN lines_read :
        IsMalformed(lines_read[i]) =>
            /\ i = Len(lines_read)
            /\ rpc = "raised"
            /\ err \in {"ValueError", "IndexError"}

\* C15 witness: read_gml raised at a close bracket with an empty stack
\* after it had stored a value
C15_Witness ==
    /\ rpc = "raised"
    /\ err = "IndexError"
    /\ result # EmptyDict
    /\ IsMalformed(lines_read[Len(lines_read)])

-----------------------------------------------------------------------------
(* Edges with an unknown endpoint *)

\* the ids of the nodes that classify as a cell or as a computation
EntityIds ==
    {nodes[i].d["id"].i : i \in {j \in DOMAIN nodes :
        /\ "id" \in DOMAIN nodes[j].d
        /\ classified(nodes[j]).exc = "none"
        /\ classified(nodes[j]).role \in {"variable", "function"}}}

\* the edge classifies as reads-from, writes-to or fires-after and its
\* source or its target is the id of no entity
UnknownEndpoint(edge) ==
    /\ "source" \in DOMAIN edge.d
    /\ "target" \in DOMAIN edge.d
    /\ \/ edge.d["source"].i \notin EntityIds
       \/ edge.d["target"].i \notin EntityIds
    /\ classified(edge).exc = "none"
    /\ classified(edge).role \in {"gets", "sets", "triggers"}

\* the build leaves the edge loop for the sorting of the edges, or returns,
\* only when no edge has an unknown endpoint
C16_Return ==
    (bpc'.at # bpc.at /\ bpc'.at \in {"order", "returned"}) =>
        \A i \in DOMAIN edges : ~UnknownEndpoint(edges[i])

\* the turn of the edge loop at an edge with an unknown endpoint fails
C16_Step ==
    (bpc.at = "edges" /\ UnknownEndpoint(edges[bpc.i])) =>
        /\ bpc'.at = "failed"
        /\ err' \in {"KeyError", "AttributeError"}
        /\ <<gets', sets', triggers'>> = <<gets, sets, triggers>>

\* C16: an edge classified as reads-from, writes-to or fires-after whose
\* source or target is not the id of a node classified as a cell or a
\* computation makes setup_workspace fail with an error; no workspace is
\* returned and the edge is not dropped.
C16_UnknownEndpointFails == [][C16_Step /\ C16_Return]_vars

\* C16 witness: every node was registered and the build failed with
\* KeyError at an edge with an unknown endpoint
C16_Witness ==
    /\ bpc.at = "failed"
    /\ err = "KeyError"
    /\ \A i \in DOMAIN nodes : nodes[i].d["id"].i \in DOMAIN id_dict
    /\ bpc.i \in DOMAIN edges
    /\ UnknownEndpoint(edges[bpc.i])

-----------------------------------------------------------------------------
(* Normalization of the callable's result *)

\* what the callable of call event i returned
Result(i) == apply(func[log[i].who], log[i].args).r

\* a call event whose callable returned a single value that is no sequence
ScalarCall(i) ==
    /\ log[i].e = "call"
    /\ log[i].mode # "none"
    /\ ~is_iterable(Result(i))

\* C17: a result that is a single non-sequence value, None included, is
\* normalized to the one-element sequence of that result, so a call with one
\* output cell sets that cell to the result.
C17_ScalarIsOneOutput ==
    \A i \in DOMAIN log :
        ScalarCall(i) =>
            /\ log[i].out = <<Result(i)>>
            /\ (Len(sets[log[i].who].values) = 1 /\ Result(i) = VNone) =>
                   err # "UnboundLocalError"
            /\ (/\ Len(sets[log[i].who].values) = 1
                /\ Result(i) \notin {SkipType, TouchType, VNone}
                /\ stack = <<>>
                /\ err = "none") =>
                   /\ Returned(i)
                   /\ OfKind(Children(i), {"set"}) =
                         <<SetEv(sets[log[i].who].values[1], Result(i),
                                 log[i].who, 1, log[i].d + 1)>>

-----------------------------------------------------------------------------
(* The triggers of a computation *)

\* a call event whose outputs are resolved by one of the two dispatch modes
ResolvedCall(i) == log[i].e = "call" /\ log[i].mode \in {"1by1", "pack"}

\* the computations the frame opened at i has invoked itself, in order
Fired(i) ==
    LET calls == OfKind(Children(i), {"call"})
    IN  [k \in 1..Len(calls) |-> calls[k].who]

\* C18: a call whose outputs are resolved by one-to-one or by packing
\* dispatch goes on to apply them, and by the time it returns it has invoked
\* every computation of its own trigger list once, in list order, after the
\* outputs, whatever the outputs were.
C18_TriggersAfterDispatch ==
    \A i \in DOMAIN log :
        ResolvedCall(i) =>
            /\ ~(i < Len(log) /\ log[i + 1].e = "raise")
            /\ Returned(i) =>
                  /\ Fired(i) = triggers[log[i].who].values
                  /\ \A j, k \in DOMAIN Children(i) :
                        (Children(i)[j].e = "call" /\ Children(i)[k].e # "call")
                            => k < j

-----------------------------------------------------------------------------
(* The constructors Function(function, gets, sets, triggers) and           *)
(* Variable(name, value, triggers): what IterableProp stores               *)

\* a list
VList(e) == [t |-> "list", e |-> e]

\* a PriorityList object
VPriorityList(args) == [t |-> "PriorityList", list |-> PriorityList(args)]

\* a Variable or a Function object, by its name
VariableRef(name) == [t |-> "Variable", name |-> name]
FunctionRef(name) == [t |-> "Function", name |-> name]

\* common._make_iterable(value, PriorityList): iterable_type((value,)) is
\* PriorityList((value,)), a call with one argument, the tuple (value,)
make_priority_list(v) ==
    IF v.t = "None" THEN VPriorityList(<<>>)
    ELSE IF ~is_iterable(v) THEN VPriorityList(<<VTuple(<<v>>)>>)
    ELSE v

\* IterableProp.__set__ of gets, sets and triggers
IterableProp_set(v) == make_priority_list(v)

\* what a caller passes for gets, sets or triggers
EdgeArgs ==
    LET x == VariableRef("x")
        y == VariableRef("y")
        f == FunctionRef("f")
        g == FunctionRef("g")
    IN  {VNone, x, y, f, g,
         VTuple(<<x>>), VTuple(<<x, y>>), VTuple(<<f, g>>),
         VList(<<x>>), VList(<<g, f>>),
         VPriorityList(<<>>), VPriorityList(<<x>>), VPriorityList(<<f, g>>)}

InitConstruct ==
    /\ NoConstruction
    /\ NoRuntime
    /\ err = "none"
    /\ NoClassifier
    /\ NoBuild
    /\ NoRegistry
    /\ NoReader
    /\ NoLabel

\* Function.__init__, lines 66-69; one entity is constructed in a behaviour
Function_init ==
    /\ constructed.kind = "none"
    /\ \E g \in EdgeArgs, s \in EdgeArgs, t \in EdgeArgs :
          constructed' =
              [kind |-> "Function",
               args |-> [gets |-> g, sets |-> s, triggers |-> t],
               gets |-> IterableProp_set(g),
               sets |-> IterableProp_set(s),
               triggers |-> IterableProp_set(t)]
    /\ UNCHANGED <<rvars, err, cvars, bvars, lvars, gvars, pvars>>

\* Variable.__init__, lines 178-180
Variable_init ==
    /\ constructed.kind = "none"
    /\ \E v \in InputValues, t \in EdgeArgs :
          constructed' =
              [kind |-> "Variable",
               args |-> [value |-> v, triggers |-> t],
               value |-> v,
               triggers |-> IterableProp_set(t)]
    /\ UNCHANGED <<rvars, err, cvars, bvars, lvars, gvars, pvars>>

NextConstruct ==
    \/ Function_init
    \/ Variable_init

SpecConstruct == InitConstruct /\ [][NextConstruct]_vars

\* the edge lists of the constructed entity
EdgeAttrs ==
    CASE constructed.kind = "Function" -> {"gets", "sets", "triggers"}
      [] constructed.kind = "Variable" -> {"triggers"}
      [] OTHER -> {}

\* C19: gets, sets or triggers given as a single entity x is stored as a list
\* of length 1 whose item 0 is x; given as None it is stored as an empty
\* PriorityList; given as an iterable it is stored unchanged.
C19_EdgeListNormalized ==
    \A a \in EdgeAttrs :
        LET given == constructed.args[a]
            kept == constructed[a]
        IN  /\ given.t \in {"Variable", "Function"} =>
                  /\ kept.t = "PriorityList"
                  /\ Len(kept.list.values) = 1
                  /\ kept.list.values[1] = given
            /\ given = VNone => kept = VPriorityList(<<>>)
            /\ is_iterable(given) => kept = given

-----------------------------------------------------------------------------
(* parse_label on the labels of at most MaxLabel characters *)

\* the characters of a label: the name token, the separator and two others
LabelChars == {name_token, name_separator, "x", "0"}

\* the labels parse_label is called with
Labels == UNION {[1..n -> LabelChars] : n \in 0..MaxLabel}

InitLabel ==
    /\ label_arg \in Labels
    /\ label_ret = [at |-> "called"]
    /\ NoRuntime
    /\ err = "none"
    /\ NoClassifier
    /\ NoBuild
    /\ NoRegistry
    /\ NoReader
    /\ NoConstruction

\* parse_label(label) returns or raises
call_parse_label ==
    /\ label_ret.at = "called"
    /\ label_ret' = [at |-> "done", out |-> parse_label(VText(label_arg))]
    /\ UNCHANGED <<label_arg, rvars, err, cvars, bvars, lvars, gvars, kvars>>

NextLabel == call_parse_label

SpecLabel == InitLabel /\ [][NextLabel]_vars

\* the 1-based position of the first separator of the label, 0 without one
FirstSeparator ==
    IF \E i \in DOMAIN label_arg : label_arg[i] = name_separator
    THEN Min({i \in DOMAIN label_arg : label_arg[i] = name_separator})
    ELSE 0

\* the label has exactly one name token, and it is its first character
TokenFirst ==
    /\ Cardinality({i \in DOMAIN label_arg : label_arg[i] = name_token}) = 1
    /\ label_arg[1] = name_token

\* C20: parse_label fails on a label with no or more than one name token;
\* on token, name, separator, description it returns the text strictly
\* between the token and the first separator as the name and the text after
\* the first separator as the description; without a separator the name is
\* everything after the token and the description is empty.
C20_ParseLabel ==
    label_ret.at = "done" =>
        /\ Cardinality({i \in DOMAIN label_arg : label_arg[i] = name_token}) # 1
              => label_ret.out.exc # "none"
        /\ (TokenFirst /\ FirstSeparator # 0) =>
              /\ label_ret.out.exc = "none"
              /\ label_ret.out.description =
                    SubSeq(label_arg, FirstSeparator + 1, Len(label_arg))
              /\ label_ret.out.name = SubSeq(label_arg, 2, FirstSeparator - 1)
        /\ (TokenFirst /\ FirstSeparator = 0) =>
              /\ label_ret.out.exc = "none"
              /\ label_ret.out.description = <<>>
              /\ label_ret.out.name = Tail(label_arg)

-----------------------------------------------------------------------------
(* The effect of one edge on the edge lists *)

\* the edge the edge loop is at
AtEdge == edges[bpc.i]

\* the edge the loop is at classifies as role and both its endpoints are
\* ids of registered entities
Resolved(role) ==
    /\ bpc.at = "edges"
    /\ classified(AtEdge).exc = "none"
    /\ classified(AtEdge).role = role
    /\ "source" \in DOMAIN AtEdge.d
    /\ "target" \in DOMAIN AtEdge.d
    /\ AtEdge.d["source"].i \in DOMAIN id_dict
    /\ AtEdge.d["target"].i \in DOMAIN id_dict

\* the entity at the source and at the target of the edge the loop is at
SourceEntity == id_dict[AtEdge.d["source"].i]
TargetEntity == id_dict[AtEdge.d["target"].i]

\* lists' is lists with one entry (the order of the edge, peer) appended
\* to the list of holder, and nothing else changed
OneAppended(lists, after, holder, peer) ==
    /\ holder \in DOMAIN lists
    /\ DOMAIN after = DOMAIN lists
    /\ after[holder].values = Append(lists[holder].values, peer)
    /\ after[holder].priorities =
          Append(lists[holder].priorities, get_edge_order(AtEdge))
    /\ \A o \in DOMAIN lists \ {holder} : after[o] = lists[o]

\* the turn of the edge loop at a resolved edge appends one entry to the
\* list the role names; at any other record it appends nothing
C21_Step ==
    /\ Resolved("gets") =>
          /\ OneAppended(gets, gets', TargetEntity, SourceEntity)
          /\ sets' = sets /\ triggers' = triggers
    /\ Resolved("sets") =>
          /\ OneAppended(sets, sets', SourceEntity, TargetEntity)
          /\ gets' = gets /\ triggers' = triggers
    /\ Resolved("triggers") =>
          /\ OneAppended(triggers, triggers', SourceEntity, TargetEntity)
          /\ gets' = gets /\ sets' = sets
    /\ (/\ bpc.at = "edges"
        /\ classified(AtEdge).exc = "none"
        /\ classified(AtEdge).role \notin {"gets", "sets", "triggers"}) =>
          /\ gets' = gets /\ sets' = sets /\ triggers' = triggers
          /\ bpc'.at # "failed"

\* C21: in the edge loop each classified edge with resolved endpoints
\* appends exactly one (priority, peer) entry, the source to the target's
\* gets, the target to the source's sets or the target to the source's
\* triggers, and changes no other edge list; a record that classifies as no
\* edge role appends nothing.
C21_EdgeWiring == [][C21_Step]_vars

\* the edge the loop is at is resolved and the entity that is to hold the
\* new entry has the list: a computation for gets and sets, any entity for
\* triggers
Wirable(role) ==
    /\ Resolved(role)
    /\ role = "gets" => TargetEntity \in DOMAIN gets
    /\ role = "sets" => SourceEntity \in DOMAIN sets

\* the turn of the edge loop at a resolved edge whose holder is of the kind
\* that has the list appends one entry to it; a resolved edge whose holder
\* has no such list fails the build and appends nothing
C21_StepOfKind ==
    /\ Wirable("gets") =>
          /\ OneAppended(gets, gets', TargetEntity, SourceEntity)
          /\ sets' = sets /\ triggers' = triggers
    /\ Wirable("sets") =>
          /\ OneAppended(sets, sets', SourceEntity, TargetEntity)
          /\ gets' = gets /\ triggers' = triggers
    /\ Wirable("triggers") =>
          /\ OneAppended(triggers, triggers', SourceEntity, TargetEntity)
          /\ gets' = gets /\ sets' = sets
    /\ (\E role \in {"gets", "sets"} : Resolved(role) /\ ~Wirable(role)) =>
          /\ bpc'.at = "failed"
          /\ err' = "AttributeError"
          /\ gets' = gets /\ sets' = sets /\ triggers' = triggers
    /\ (/\ bpc.at = "edges"
        /\ classified(AtEdge).exc = "none"
        /\ classified(AtEdge).role \notin {"gets", "sets", "triggers"}) =>
          /\ gets' = gets /\ sets' = sets /\ triggers' = triggers
          /\ bpc'.at # "failed"

\* C21 amended: the append happens when the holder is a computation (gets,
\* sets) or any entity (triggers); a reads-from edge that ends at a cell and
\* a writes-to edge that starts at a cell fail the build.
C21_EdgeWiringOfKind == [][C21_StepOfKind]_vars

\* C21 witness: the first two edges of a build are wired, one cell in the
\* gets and one in the sets of a computation, and no trigger
C21_Witness ==
    /\ bpc.at \in {"edges", "order"}
    /\ \E f \in DOMAIN gets :
          /\ Len(gets[f].values) = 1
          /\ Len(sets[f].values) = 1
          /\ gets[f].values[1] # sets[f].values[1]
    /\ \A o \in DOMAIN triggers : triggers[o].values = <<>>

-----------------------------------------------------------------------------
(* Exceptions of the classifier *)

\* the roles of the scheme
Roles == {patterns[i].role : i \in DOMAIN patterns}

\* C22: get_entity returns a role of the scheme or none and never raises,
\* whatever the record holds on the paths of the patterns and however many
\* patterns match.
C22_ClassificationNeverRaises ==
    cpc = "done" =>
        /\ err = "none"
        /\ entity \in Roles \cup {"None"}

-----------------------------------------------------------------------------
(* The end of a continuation *)

\* the stripped line ends with a quote
EndsWithQuote(line) ==
    strip(line) # <<>> /\ strip(line)[Len(strip(line))] = apostrophe

\* a turn of the loop in continuation mode: a line that ends with a quote
\* ends the continuation (or the store raises), any other line is joined
\* to the value with one space and changes neither stack nor result
C23_Step ==
    (rpc = "reading" /\ continued /\ lines_read' # lines_read) =>
        LET line == lines_read'[Len(lines_read')].line
        IN  /\ EndsWithQuote(line) => (rpc' = "raised" \/ ~continued')
            /\ ~EndsWithQuote(line) =>
                  /\ rpc' = "reading"
                  /\ continued'
                  /\ cur_val' = cur_val \o <<" ">> \o strip(line)
                  /\ fields' = fields
                  /\ result' = result

\* C23: in continuation mode a line ends the continuation if and only if
\* the stripped line ends with a quote; every other line, an empty one
\* included, is appended to the partial value with one space and leaves the
\* bracket stack and the result as they were.
C23_ContinuationEnds == [][C23_Step]_vars

-----------------------------------------------------------------------------
(* The kinds of the entities in the edge lists *)

\* every entry of every list of lists is one of the entities of registry
AllOfKind(lists, registry) ==
    \A o \in DOMAIN lists : Range(lists[o].values) \subseteq objects(registry)

\* C24: in a workspace that setup_workspace has returned, every entry of a
\* triggers list is a computation and every entry of a gets or sets list is
\* a state cell.
C24_EdgeListKinds ==
    bpc.at = "returned" =>
        /\ AllOfKind(triggers, functions)
        /\ AllOfKind(gets, variables)
        /\ AllOfKind(sets, variables)

-----------------------------------------------------------------------------
(* Re-entrant fan-out (common.py 221-231, engine.py 148-150, 207-209,      *)
(* 219-220): a frame iterates its trigger list through the cursor the list *)
(* itself holds.                                                           *)

\* the frame opened at j runs the same operation family on the same object
\* as the frame opened at i, while a trigger of i is being invoked
Reenters(i, j) ==
    /\ Opens(i) /\ Opens(j)
    /\ log[j].who = log[i].who
    /\ (log[i].e = "call") = (log[j].e = "call")
    /\ \E m \in ChildCalls(i) : m <= j /\ j <= SpanEnd(m)

\* the frame opened at i belongs to a re-entrant nest, as outer or as inner
InNest(i) == \E j \in DOMAIN log : Reenters(i, j) \/ Reenters(j, i)

\* C25: every update, touch or call of a re-entrant nest, the outer one
\* included, has invoked each Function of its trigger list exactly once, in
\* list order, by the time it returns.
C25_ReentrantFanOut ==
    \A i \in DOMAIN log :
        (InNest(i) /\ Returned(i)) => Invoked(i) = triggers[log[i].who].values

-----------------------------------------------------------------------------
(* Termination (engine.py 94-150, 200-220). The interpreter runs one       *)
(* thread: once the caller has entered an operation, the top frame keeps   *)
(* executing until it returns or raises, which is weak fairness of Step.   *)

SpecBuildLive == SpecBuild /\ WF_vars(Step)

\* the objects an object hands control to: a cell its triggers, a Function
\* its output cells and its triggers
Succ(o) ==
    Range(triggers[o].values)
        \cup (IF o \in DOMAIN sets THEN Range(sets[o].values) ELSE {})

RECURSIVE Closure(_)
\* everything reachable from the objects of S, S included
Closure(S) ==
    LET T == S \cup UNION {Succ(o) : o \in S \cap DOMAIN triggers}
    IN  IF T = S THEN S ELSE Closure(T)

\* no cell and no Function of the workspace reaches itself
Acyclic == \A o \in DOMAIN triggers : o \notin Closure(Succ(o))

\* the operation the caller started has returned to it
ReturnedToCaller == stack = <<>> /\ err = "none" /\ log # <<>>

\* every frame of the cascade has returned, each having run its whole
\* trigger list, and the outermost frame's return is the last event
CascadeFinished ==
    /\ \A i \in DOMAIN log :
          Opens(i) => Returned(i) /\ Invoked(i) = triggers[log[i].who].values
    /\ Last(log) = RetEv(log[1].who, 1)

\* C26: on a built graph in which nothing reaches itself, an operation the
\* caller started comes to its end, and when it has returned to the caller
\* every computation of its cascade has finished.
C26_AcyclicTerminates ==
    /\ [](Acyclic /\ ReturnedToCaller => CascadeFinished)
    /\ (Acyclic /\ stack # <<>>) ~> (stack = <<>>)

\* C26 witness: on an acyclic built graph an operation has returned after a
\* cascade of at least two computations
C26_Witness ==
    /\ bpc.at = "returned"
    /\ Acyclic
    /\ ReturnedToCaller
    /\ Len(OfKind(log, {"call"})) >= 2

-----------------------------------------------------------------------------
(* Failure inside a cascade (engine.py 118-150, 200-209): nothing between  *)
(* the failing computation and the caller catches the exception, and       *)
(* nothing undoes a write.                                                 *)

\* a frame that was still open when the log ended
Enclosing(i) == Opens(i) /\ ~Returned(i)

\* the state the caller sees after a failed operation: every frame is gone,
\* the exception is the last thing that happened, each cell written in the
\* cascade holds the value last written to it, and each enclosing frame
\* stopped inside its trigger list and inside its outputs
Failed ==
    /\ stack = <<>>
    /\ log # <<>>
    /\ Last(log).e = "raise"
    /\ Last(log).who = err
    /\ \A c \in DOMAIN value :
          SetsBefore(c, Len(log) + 1) # {} =>
              value[c] = log[Max(SetsBefore(c, Len(log) + 1))].val
    /\ \A i \in DOMAIN log :
          Enclosing(i) =>
              /\ IsPrefix(Invoked(i), triggers[log[i].who].values)
              /\ OneToOne(i) =>
                    IsPrefix(OfKind(Children(i), {"set", "touch", "skip"}),
                             AllOwed(i))

\* the step in which a computation fails writes no cell and leaves no frame
C27_Step == Logged({"raise"}) => value' = value /\ stack' = <<>> /\ err' # "none"

-----------------------------------------------------------------------------
(* The two registries under any sequence of calls (common.py 102-152,      *)
(* 207-248): a NamedList and a PriorityList, each called by the caller.    *)

\* PriorityList.pop(index): _priorities.pop(index), then _values.pop(index)
priority_pop(L, idx) ==
    LET p == list_position(L.priorities, idx)
        q == list_position(L.values, idx)
    IN  IF p = 0 THEN Outcome("IndexError", L, VNone)
        ELSE IF q = 0
        THEN Outcome("IndexError", [L EXCEPT !.priorities = without(@, p)], VNone)
        ELSE Outcome("none",
                     [L EXCEPT !.priorities = without(@, p),
                               !.values = without(@, q)],
                     L.values[q])

\* the priorities the caller appends with
Priorities == {Pri(0), Pri(1), pos_inf}

\* the call `op` on the PriorityList left the list L and raised exc
priority_called(op, idx, priority, val, L, exc) ==
    /\ nlops < MaxListOps
    /\ nlops' = nlops + 1
    /\ plist' = L
    /\ plop' = PriorityCall(op, idx, priority, val, plist, exc)
    /\ UNCHANGED <<nlist, nlop, rvars, err, cvars, bvars, gvars, kvars, pvars>>

PriorityList_append ==
    \E priority \in Priorities, v \in InputValues :
        priority_called("append", 0, priority, v, append(plist, priority, v),
                        "none")

PriorityList_pop ==
    \E idx \in (0 - Len(plist.values) - 1)..Len(plist.values) :
        priority_called("pop", idx, Pri(0), VNone, priority_pop(plist, idx).L,
                        priority_pop(plist, idx).exc)

PriorityList_sort_by_priority ==
    priority_called("sort_by_priority", 0, Pri(0), VNone,
                    sort_by_priority(plist), "none")

NextLists ==
    \/ NextRegistry
    \/ PriorityList_append
    \/ PriorityList_pop
    \/ PriorityList_sort_by_priority

SpecLists == InitRegistry /\ [][NextLists]_vars

\* the keys of a NamedList are pairwise distinct and as many as its values
KeysAligned(L) ==
    /\ Len(L.keys) = Len(L.values)
    /\ \A i, j \in DOMAIN L.keys : i # j => L.keys[i] # L.keys[j]

\* the value a NamedList holds at the position of each of its keys
ValueOf(L) ==
    [k \in Range(L.keys) |->
        L.values[CHOOSE i \in DOMAIN L.keys : L.keys[i] = k]]

\* the key the index idx of a call names in the NamedList L
KeyAt(L, idx) ==
    IF idx.str THEN idx.k ELSE L.keys[list_position(L.keys, idx.i)]

\* what the last call on the NamedList owed to the keys: a successful append
\* adds its key with its value, a successful pop removes one key, a
\* successful assignment replaces one key's value, and sorting or a failing
\* call leaves every key with its value
NamedPairing ==
    LET B == nlop.before
        k == KeyAt(B, nlop.index)
    IN  CASE nlop.exc = "none" /\ nlop.op = "append" ->
                 ValueOf(nlist) = (nlop.index.k :> nlop.val) @@ ValueOf(B)
          [] nlop.exc = "none" /\ nlop.op = "pop" ->
                 ValueOf(nlist) = [x \in Range(B.keys) \ {k} |-> ValueOf(B)[x]]
          [] nlop.exc = "none" /\ nlop.op = "setitem" ->
                 ValueOf(nlist) = [ValueOf(B) EXCEPT ![k] = nlop.val]
          [] OTHER -> ValueOf(nlist) = ValueOf(B)

\* the (priority, value) pairs of a PriorityList, position by position
Pairs(L) == [i \in 1..Len(L.priorities) |-> <<L.priorities[i], L.values[i]>>]

\* two sequences hold the same items the same number of times
SameItems(a, b) ==
    /\ Len(a) = Len(b)
    /\ \A x \in Range(a) \cup Range(b) :
          Cardinality({i \in DOMAIN a : a[i] = x})
              = Cardinality({i \in DOMAIN b : b[i] = x})

\* what the last call on the PriorityList owed to the pairs
PriorityPairing ==
    LET B == plop.before
    IN  CASE plop.exc = "none" /\ plop.op = "append" ->
                 Pairs(plist) = Append(Pairs(B), <<plop.priority, plop.val>>)
          [] plop.exc = "none" /\ plop.op = "pop" ->
                 Pairs(plist) =
                     without(Pairs(B), list_position(B.values, plop.index))
          [] plop.op = "sort_by_priority" -> SameItems(Pairs(plist), Pairs(B))
          [] OTHER -> Pairs(plist) = Pairs(B)

\* C28: after any sequence of calls the NamedList has as many keys as
\* values, its keys are pairwise distinct and each key stands at the
\* position of the value it was appended with or last assigned; the
\* PriorityList has as many priorities as values and each priority stands at
\* the position of the value it was appended with.
C28_RegistryAlignment ==
    /\ KeysAligned(nlist)
    /\ KeysAligned(nlop.before) => NamedPairing
    /\ Len(plist.priorities) = Len(plist.values)
    /\ Len(plop.before.priorities) = Len(plop.before.values) => PriorityPairing

\* C28 witness: sort_by_value moved the keys of the NamedList, or
\* sort_by_priority moved the values of the PriorityList
C28_Witness ==
    \/ /\ nlop.op = "sort_by_value"
       /\ nlist.keys # nlop.before.keys
       /\ Len(nlist.keys) >= 2
    \/ /\ plop.op = "sort_by_priority"
       /\ plist.values # plop.before.values

=============================================================================
